---------------------------- MODULE Spec2Model ----------------------------
(***************************************************************************)
(* A model of bfs: the expression tree with its build-time optimizer and   *)
(* its evaluator (parse.c / eval.c), and the breadth-first walker bftw()   *)
(* with its directory cache and frontier queue (bftw.c).                   *)
(***************************************************************************)
EXTENDS Integers, Sequences, FiniteSets, TLC

VARIABLES
    \* ---- parser / optimizer (struct parser_state, struct cmdline) ----
    optlevel,        \* cmdline->optlevel
    stack,           \* the parser's pending operands: <<[raw, opt]>>
    implicit_print,  \* parser_state.implicit_print
    ppc,             \* "parse" while parsing, "done" after parse_whole_expr
    expr,            \* cmdline->expr as [raw, opt] once ppc = "done"
    last,            \* the last constructor call: [op, args], args at optlevel
    \* ---- bftw() and its environment ----
    fs,              \* the file tree the walk runs on, one of Scenarios
    state,           \* struct bftw_state, with its dircache and dirqueue
    pc,              \* the position of bftw() in its code
    gc,              \* the locals of bftw_gc() while it runs
    bftw_ret,        \* the value bftw() returns
    log,             \* the callback invocations so far, in order
    emfile,          \* in how many opens a descriptor could not be had
    ptr,             \* bftw()'s ptr: whether the callback notes what it returns
    \* ---- eval_cmdline() ----
    args,            \* struct callback_args, with what eval_cmdline() keeps
    \* ---- parse_bfs_printf() and bfs_printf() ----
    fmt              \* the format, the position in it, the directives, the output

pvars == <<optlevel, stack, implicit_print, ppc, expr, last>>

wvars == <<fs, state, pc, gc, bftw_ret, log, emfile, ptr, args, fmt>>

vars == <<optlevel, stack, implicit_print, ppc, expr, last,
          fs, state, pc, gc, bftw_ret, log, emfile, ptr, args, fmt>>

----------------------------------------------------------------------------
\* Bounds of the model.

\* Largest number of nodes of the parsed (unoptimized) expression.
MaxNodes == 5
\* Largest number of operands the parser holds at once.
MaxStack == 3

----------------------------------------------------------------------------
\* Expression nodes.  kids is <<>> for a leaf, <<rhs>> for a unary node and
\* <<lhs, rhs>> for a binary node.

Levels == 0..4

\* Leaves whose truth value depends on the file: two tests and one action.
TestIds == {1, 2}
ActionIds == {3}

new_expr(eval, id, pure) ==
    [eval |-> eval, id |-> id, kids |-> <<>>, pure |-> pure,
     always_true |-> FALSE, always_false |-> FALSE]

expr_true ==
    [eval |-> "true", id |-> 0, kids |-> <<>>, pure |-> TRUE,
     always_true |-> TRUE, always_false |-> FALSE]

expr_false ==
    [eval |-> "false", id |-> 0, kids |-> <<>>, pure |-> TRUE,
     always_true |-> FALSE, always_false |-> TRUE]

Lhs(e) == e.kids[1]
Rhs(e) == e.kids[Len(e.kids)]

new_unary_expr(eval, rhs) ==
    [eval |-> eval, id |-> 0, kids |-> <<rhs>>, pure |-> rhs.pure,
     always_true |-> FALSE, always_false |-> FALSE]

new_binary_expr(eval, lhs, rhs) ==
    [eval |-> eval, id |-> 0, kids |-> <<lhs, rhs>>,
     pure |-> lhs.pure /\ rhs.pure,
     always_true |-> FALSE, always_false |-> FALSE]

\* parse_test, parse_action, parse_const: the leaves the parser can produce.
parse_test(i) == new_expr("test", i, TRUE)
parse_action(eval, i) == new_expr(eval, i, FALSE)
parse_const(value) == IF value THEN expr_true ELSE expr_false

Literals ==
    {parse_const(TRUE), parse_const(FALSE)}
    \cup {parse_test(i) : i \in TestIds}
    \cup {parse_action("action", i) : i \in ActionIds}
    \cup {parse_action("prune", 0), parse_action("quit", 0)}

\* parse_action clears implicit_print except for -prune and -nohidden.
ClearsImplicitPrint(e) == ~e.pure /\ e.eval # "prune"

RECURSIVE Size(_)
Size(e) ==
    IF Len(e.kids) = 0 THEN 1
    ELSE IF Len(e.kids) = 1 THEN 1 + Size(e.kids[1])
    ELSE 1 + Size(e.kids[1]) + Size(e.kids[2])


----------------------------------------------------------------------------
\* The node constructors, which apply the optimizations while the parser
\* builds the tree.  lvl is state->cmdline->optlevel.

RECURSIVE new_not_expr(_, _)
RECURSIVE new_and_expr(_, _, _)
RECURSIVE new_or_expr(_, _, _)

\* The plain "not" node with its derived flags.
not_node(rhs) ==
    [new_unary_expr("not", rhs) EXCEPT
        !.always_true = rhs.always_false,
        !.always_false = rhs.always_true]

\* An "and" node that is always false only if both operands are.
and_node_both_false(lhs, rhs) ==
    [new_binary_expr("and", lhs, rhs) EXCEPT
        !.always_true = lhs.always_true /\ rhs.always_true,
        !.always_false = lhs.always_false /\ rhs.always_false]

\* The plain "and" node with its derived flags.
and_node(lhs, rhs) ==
    [new_binary_expr("and", lhs, rhs) EXCEPT
        !.always_true = lhs.always_true /\ rhs.always_true,
        !.always_false = lhs.always_false \/ rhs.always_false]

\* The plain "or" node with its derived flags.
or_node(lhs, rhs) ==
    [new_binary_expr("or", lhs, rhs) EXCEPT
        !.always_true = lhs.always_true \/ rhs.always_true,
        !.always_false = lhs.always_false /\ rhs.always_false]

\* The plain "comma" node with its derived flags.
comma_node(lhs, rhs) ==
    [new_binary_expr("comma", lhs, rhs) EXCEPT
        !.always_true = rhs.always_true,
        !.always_false = rhs.always_false]

\* A variant of not_de_morgan that assembles the dual from plain nodes
\* instead of going through the constructors.
not_de_morgan_plain(lvl, rhs) ==
    IF rhs.eval = "or"
    THEN and_node(not_node(Lhs(rhs)), not_node(Rhs(rhs)))
    ELSE or_node(not_node(Lhs(rhs)), not_node(Rhs(rhs)))

\* The De Morgan branch of new_not_expr: rhs is an and/or with a negated
\* operand; the result is the dual operator over the negated operands.
not_de_morgan(lvl, rhs) ==
    LET other_lhs == new_not_expr(lvl, Lhs(rhs))
        other_rhs == new_not_expr(lvl, Rhs(rhs))
    IN  IF rhs.eval = "or"
        THEN new_and_expr(lvl, other_lhs, other_rhs)
        ELSE new_or_expr(lvl, other_lhs, other_rhs)

\* A variant of and_de_morgan that keeps the conjunction instead of taking
\* its dual.
and_de_morgan_no_dual(lvl, lhs, rhs) ==
    new_not_expr(lvl, new_and_expr(lvl, Rhs(lhs), Rhs(rhs)))

\* The De Morgan branch of new_and_expr: both operands are negations.
and_de_morgan(lvl, lhs, rhs) ==
    new_not_expr(lvl, new_or_expr(lvl, Rhs(lhs), Rhs(rhs)))

\* A variant of or_de_morgan that forgets the outer negation.
or_de_morgan_no_not(lvl, lhs, rhs) ==
    new_and_expr(lvl, Rhs(lhs), Rhs(rhs))

\* The De Morgan branch of new_or_expr: both operands are negations.
or_de_morgan(lvl, lhs, rhs) ==
    new_not_expr(lvl, new_and_expr(lvl, Rhs(lhs), Rhs(rhs)))

new_not_expr(lvl, rhs) ==
    IF lvl >= 1 /\ rhs = expr_true THEN expr_false
    ELSE IF lvl >= 1 /\ rhs = expr_false THEN expr_true
    ELSE IF lvl >= 1 /\ rhs.eval = "not" THEN Rhs(rhs)
    ELSE IF lvl >= 1 /\ rhs.eval \in {"and", "or"}
            /\ (Lhs(rhs).eval = "not" \/ Rhs(rhs).eval = "not")
         THEN not_de_morgan(lvl, rhs)
    ELSE not_node(rhs)

new_and_expr(lvl, lhs, rhs) ==
    IF lvl >= 1 /\ lhs = expr_true THEN rhs
    ELSE IF lvl >= 1 /\ rhs = expr_true THEN lhs
    ELSE IF lvl >= 1 /\ lhs.always_false THEN lhs
    ELSE IF lvl >= 2 /\ rhs.always_false /\ lhs.pure THEN rhs
    ELSE IF lvl >= 1 /\ lhs.eval = "not" /\ rhs.eval = "not"
         THEN and_de_morgan(lvl, lhs, rhs)
    ELSE and_node(lhs, rhs)

new_or_expr(lvl, lhs, rhs) ==
    IF lvl >= 1 /\ lhs.always_true THEN lhs
    ELSE IF lvl >= 1 /\ lhs = expr_false THEN rhs
    ELSE IF lvl >= 1 /\ rhs = expr_false THEN lhs
    ELSE IF lvl >= 2 /\ rhs.always_true /\ lhs.pure THEN rhs
    ELSE IF lvl >= 1 /\ lhs.eval = "not" /\ rhs.eval = "not"
         THEN or_de_morgan(lvl, lhs, rhs)
    ELSE or_node(lhs, rhs)

new_comma_expr(lvl, lhs, rhs) ==
    LET l == IF lvl >= 1 /\ lhs.eval = "not" THEN Rhs(lhs) ELSE lhs
    IN  IF lvl >= 2 /\ l.pure THEN rhs
        ELSE comma_node(l, rhs)

\* The loop of optimize_whole_expr: strip a pure right operand of the
\* top-level and/or/comma while there is one.
RECURSIVE strip_pure_rhs(_)
strip_pure_rhs(e) ==
    IF e.eval \in {"and", "or", "comma"} /\ Rhs(e).pure
    THEN strip_pure_rhs(Lhs(e))
    ELSE e

optimize_whole_expr(lvl, e) ==
    LET e2 == IF lvl >= 2 THEN strip_pure_rhs(e) ELSE e
    IN  IF lvl >= 4 /\ e2.pure /\ e2 # expr_false THEN expr_false ELSE e2

\* A parse_whole_expr that adds no -print.
parse_whole_expr_no_print(lvl, e, implicit) == optimize_whole_expr(lvl, e)

\* parse_whole_expr from the parsed expression on: the implicit -print and
\* the top-level pass.
parse_whole_expr(lvl, e, implicit) ==
    LET print == new_expr("fprint", 0, FALSE)
        e2 == IF implicit THEN new_and_expr(lvl, e, print) ELSE e
    IN  optimize_whole_expr(lvl, e2)

----------------------------------------------------------------------------
\* The evaluator.  An evaluation state is [ret, quit, action, trace, ...]:
\* the value returned by the node just evaluated, *state->quit,
\* state->action, and the leaves evaluated so far, in order.  asg gives the
\* truth value of each test and of each action whose result depends on the
\* file.  The rest of the state is about stat(): whether ftwbuf->statbuf is
\* set, the errno of an fstatat() on the file (0: none), how many fstatat()
\* fill_statbuf() has made, the errno of each eval_error() so far, and what
\* each leaf of the trace returned.

Assignments == [TestIds \cup ActionIds -> BOOLEAN]

eval_state0 ==
    [ret |-> FALSE, quit |-> FALSE, action |-> "CONTINUE", trace |-> <<>>,
     statbuf |-> FALSE, fstatat |-> 0, stats |-> 0, errors |-> <<>>,
     values |-> <<>>]

\* fill_statbuf(): fstatat() unless ftwbuf->statbuf is set, and eval_error()
\* when it fails.
fill_statbuf(st) ==
    IF st.statbuf THEN st
    ELSE IF st.fstatat = 0
    THEN [st EXCEPT !.statbuf = TRUE, !.stats = @ + 1]
    ELSE [st EXCEPT !.stats = @ + 1, !.errors = Append(@, st.fstatat)]

\* The leaf functions: eval_true, eval_false, a test, an action such as
\* -exec or -delete, eval_fprint, eval_prune, eval_quit, and a test that
\* needs stat data, such as eval_inum or eval_uid.
eval_leaf(e, asg, st) ==
    LET st2 == [st EXCEPT !.trace = Append(@, <<e.eval, e.id>>)]
        returned(r) == [r EXCEPT !.values = Append(@, r.ret)]
        compared(f) == [f EXCEPT !.ret = f.statbuf /\ asg[e.id]]
    IN  returned(
        CASE e.eval = "true" -> [st2 EXCEPT !.ret = TRUE]
          [] e.eval = "false" -> [st2 EXCEPT !.ret = FALSE]
          [] e.eval \in {"test", "action"} -> [st2 EXCEPT !.ret = asg[e.id]]
          [] e.eval = "fprint" -> [st2 EXCEPT !.ret = TRUE]
          [] e.eval = "prune" ->
                [st2 EXCEPT !.ret = TRUE, !.action = "SKIP_SUBTREE"]
          [] e.eval = "quit" ->
                [st2 EXCEPT !.ret = TRUE, !.action = "STOP", !.quit = TRUE]
          [] e.eval = "stat" -> compared(fill_statbuf(st2)))

RECURSIVE eval_expr(_, _, _)

eval_not(e, asg, st) ==
    LET r == eval_expr(Rhs(e), asg, st)
    IN  [r EXCEPT !.ret = ~r.ret]

\* An eval_and() that does not look at *state->quit.
eval_and_no_quit(e, asg, st) ==
    LET l == eval_expr(Lhs(e), asg, st)
    IN  IF ~l.ret THEN [l EXCEPT !.ret = FALSE]
        ELSE eval_expr(Rhs(e), asg, l)

eval_and(e, asg, st) ==
    LET l == eval_expr(Lhs(e), asg, st)
    IN  IF ~l.ret THEN [l EXCEPT !.ret = FALSE]
        ELSE IF l.quit THEN [l EXCEPT !.ret = FALSE]
        ELSE eval_expr(Rhs(e), asg, l)

eval_or(e, asg, st) ==
    LET l == eval_expr(Lhs(e), asg, st)
    IN  IF l.ret THEN [l EXCEPT !.ret = TRUE]
        ELSE IF l.quit THEN [l EXCEPT !.ret = FALSE]
        ELSE eval_expr(Rhs(e), asg, l)

eval_comma(e, asg, st) ==
    LET l == eval_expr(Lhs(e), asg, st)
    IN  IF l.quit THEN [l EXCEPT !.ret = FALSE]
        ELSE eval_expr(Rhs(e), asg, l)

eval_expr(e, asg, st) ==
    CASE e.eval = "not" -> eval_not(e, asg, st)
      [] e.eval = "and" -> eval_and(e, asg, st)
      [] e.eval = "or" -> eval_or(e, asg, st)
      [] e.eval = "comma" -> eval_comma(e, asg, st)
      [] OTHER -> eval_leaf(e, asg, st)

\* One evaluation of a whole expression on one file.
Evaluate(e, asg) == eval_expr(e, asg, eval_state0)

IsActionLeaf(x) == x[1] \in {"action", "fprint", "prune", "quit"}

\* What an evaluation does that can be observed: the action leaves it
\* evaluated, in order, and the callback action it leaves behind.
Effects(e, asg) ==
    LET r == Evaluate(e, asg)
    IN  [actions |-> SelectSeq(r.trace, IsActionLeaf), action |-> r.action]

RECURSIVE HasImpureLeaf(_)
HasImpureLeaf(e) ==
    IF Len(e.kids) = 0 THEN ~e.pure
    ELSE \E i \in 1..Len(e.kids) : HasImpureLeaf(e.kids[i])

----------------------------------------------------------------------------
\* The parser as a machine that builds the expression bottom-up, as
\* parse_factor/parse_term/parse_clause/parse_expr do.  Every operand is kept
\* twice: as the constructors build it at level 0 (raw) and as they build it
\* at the chosen level (opt).

RECURSIVE StackSize(_)
StackSize(s) == IF s = <<>> THEN 0 ELSE Size(Head(s).raw) + StackSize(Tail(s))

Top(s) == s[Len(s)]
Second(s) == s[Len(s) - 1]
Pop(s, n) == SubSeq(s, 1, Len(s) - n)

\* No format: nothing is being formatted.  needs_stat is command->needs_stat,
\* st the evaluation state of the file that is printed, null whether a
\* directive has read ftwbuf->statbuf while it was NULL.
NoFormat ==
    [format |-> <<>>, i |-> 0, literal |-> <<>>, directives |-> <<>>,
     out |-> <<>>, pc |-> "idle", verbatim |-> FALSE, needs_stat |-> FALSE,
     st |-> eval_state0, null |-> FALSE]

\* No struct callback_args: bftw() called on its own, or not at all.
NoArgs ==
    [cmdline |-> [expr |-> expr_true, optlevel |-> 0, flags |-> {},
                  mindepth |-> 0, maxdepth |-> 0, ignore_races |-> FALSE],
     ret |-> 0, quit |-> FALSE, root |-> 0, nopenfd |-> 0, cerr |-> 0]

PInit ==
    /\ optlevel \in Levels
    /\ stack = <<>>
    /\ implicit_print = TRUE
    /\ ppc = "parse"
    /\ expr = [raw |-> expr_true, opt |-> expr_true]
    /\ last = [op |-> "none", args |-> <<>>]
    /\ fs = <<>>
    /\ state = <<>>
    /\ pc = "idle"
    /\ gc = <<>>
    /\ bftw_ret = 0
    /\ log = <<>>
    /\ emfile = 0
    /\ ptr = FALSE
    /\ args = NoArgs
    /\ fmt = NoFormat

\* parse_literal: a test, an action or a constant.
ParseLiteral ==
    /\ ppc = "parse"
    /\ Len(stack) < MaxStack
    /\ StackSize(stack) < MaxNodes
    /\ \E e \in Literals :
        /\ stack' = Append(stack, [raw |-> e, opt |-> e])
        /\ implicit_print' = (implicit_print /\ ~ClearsImplicitPrint(e))
    /\ last' = [op |-> "literal", args |-> <<>>]
    /\ UNCHANGED <<optlevel, ppc, expr>>
    /\ UNCHANGED wvars

\* parse_factor: "!" FACTOR.
ParseNot ==
    /\ ppc = "parse"
    /\ Len(stack) >= 1
    /\ StackSize(stack) < MaxNodes
    /\ stack' = Append(Pop(stack, 1),
                       [raw |-> new_not_expr(0, Top(stack).raw),
                        opt |-> new_not_expr(optlevel, Top(stack).opt)])
    /\ last' = [op |-> "not", args |-> <<Top(stack).opt>>]
    /\ UNCHANGED <<optlevel, implicit_print, ppc, expr>>
    /\ UNCHANGED wvars

\* parse_term: TERM "-a" FACTOR.
ParseAnd ==
    /\ ppc = "parse"
    /\ Len(stack) >= 2
    /\ StackSize(stack) < MaxNodes
    /\ stack' = Append(Pop(stack, 2),
          [raw |-> new_and_expr(0, Second(stack).raw, Top(stack).raw),
           opt |-> new_and_expr(optlevel, Second(stack).opt, Top(stack).opt)])
    /\ last' = [op |-> "and", args |-> <<Second(stack).opt, Top(stack).opt>>]
    /\ UNCHANGED <<optlevel, implicit_print, ppc, expr>>
    /\ UNCHANGED wvars

\* parse_clause: CLAUSE "-o" TERM.
ParseOr ==
    /\ ppc = "parse"
    /\ Len(stack) >= 2
    /\ StackSize(stack) < MaxNodes
    /\ stack' = Append(Pop(stack, 2),
          [raw |-> new_or_expr(0, Second(stack).raw, Top(stack).raw),
           opt |-> new_or_expr(optlevel, Second(stack).opt, Top(stack).opt)])
    /\ last' = [op |-> "or", args |-> <<Second(stack).opt, Top(stack).opt>>]
    /\ UNCHANGED <<optlevel, implicit_print, ppc, expr>>
    /\ UNCHANGED wvars

\* parse_expr: EXPR "," CLAUSE.
ParseComma ==
    /\ ppc = "parse"
    /\ Len(stack) >= 2
    /\ StackSize(stack) < MaxNodes
    /\ stack' = Append(Pop(stack, 2),
          [raw |-> new_comma_expr(0, Second(stack).raw, Top(stack).raw),
           opt |-> new_comma_expr(optlevel, Second(stack).opt, Top(stack).opt)])
    /\ last' = [op |-> "comma", args |-> <<Second(stack).opt, Top(stack).opt>>]
    /\ UNCHANGED <<optlevel, implicit_print, ppc, expr>>
    /\ UNCHANGED wvars

\* parse_whole_expr: the end of the command line.  With no expression at all
\* the expression is -true.
ParseWholeExpr ==
    /\ ppc = "parse"
    /\ Len(stack) <= 1
    /\ LET e == IF stack = <<>> THEN [raw |-> expr_true, opt |-> expr_true]
                ELSE Top(stack)
       IN  expr' = [raw |-> parse_whole_expr(0, e.raw, implicit_print),
                    opt |-> parse_whole_expr(optlevel, e.opt, implicit_print)]
    /\ ppc' = "done"
    /\ last' = [op |-> "whole", args |-> <<>>]
    /\ UNCHANGED <<optlevel, stack, implicit_print>>
    /\ UNCHANGED wvars

PNext ==
    \/ ParseLiteral
    \/ ParseNot
    \/ ParseAnd
    \/ ParseOr
    \/ ParseComma
    \/ ParseWholeExpr

\* The parser and optimizer alone.
SpecExpr == PInit /\ [][PNext]_vars

----------------------------------------------------------------------------
\* Properties of the optimizer.

\* The expression as parsed, before parse_whole_expr.
Parsed ==
    IF stack = <<>> THEN [raw |-> expr_true, opt |-> expr_true] ELSE Top(stack)

\* C3: the tree built at level 1, 2 or 3 evaluates the same action leaves in
\* the same order, and leaves the same prune/quit outcome, as the tree built
\* at level 0, on every assignment of truth values to the leaves.
C3_SameEffects ==
    (ppc = "done" /\ optlevel \in 1..3) =>
        \A asg \in Assignments :
            Effects(expr.opt, asg) = Effects(expr.raw, asg)

\* C4: for an expression without impure leaf, the tree the whole pipeline
\* builds at any level evaluates to the same boolean as the expression.
C4_PureValuePreserved ==
    (ppc = "done" /\ ~HasImpureLeaf(Parsed.raw)) =>
        \A asg \in Assignments :
            Evaluate(expr.opt, asg).ret = Evaluate(Parsed.raw, asg).ret

\* A pure expression that the constructors did rewrite, completed at a level
\* where the top-level pass is active, and true on some file.
C4_Witness ==
    /\ ppc = "done"
    /\ optlevel >= 2
    /\ ~HasImpureLeaf(Parsed.raw)
    /\ Size(Parsed.raw) >= 3
    /\ Parsed.opt # Parsed.raw
    /\ \E asg \in Assignments : Evaluate(expr.opt, asg).ret

\* The tree e built again, bottom-up, by the constructors at level lvl.
RECURSIVE Rebuild(_, _)
Rebuild(lvl, e) ==
    CASE e.eval = "not" -> new_not_expr(lvl, Rebuild(lvl, Rhs(e)))
      [] e.eval = "and" ->
            new_and_expr(lvl, Rebuild(lvl, Lhs(e)), Rebuild(lvl, Rhs(e)))
      [] e.eval = "or" ->
            new_or_expr(lvl, Rebuild(lvl, Lhs(e)), Rebuild(lvl, Rhs(e)))
      [] e.eval = "comma" ->
            new_comma_expr(lvl, Rebuild(lvl, Lhs(e)), Rebuild(lvl, Rhs(e)))
      [] OTHER -> e

\* C9: optimizing an optimized tree again, by the same constructors and the
\* same top-level pass at the same level, gives the identical tree; this
\* holds of every operand the parser holds and of the final expression.
C9_Idempotent ==
    /\ \A i \in 1..Len(stack) :
            Rebuild(optlevel, stack[i].opt) = stack[i].opt
    /\ ppc = "done" =>
            optimize_whole_expr(optlevel, Rebuild(optlevel, expr.opt)) = expr.opt

\* A final expression with operators left in it that optimization changed.
C9_Witness ==
    /\ ppc = "done"
    /\ optlevel >= 1
    /\ expr.opt # expr.raw
    /\ Size(expr.opt) >= 3

\* The guards under which each constructor reaches its De Morgan branch.
DeMorganNotApplies(rhs) ==
    /\ rhs # expr_true /\ rhs # expr_false /\ rhs.eval # "not"
    /\ rhs.eval \in {"and", "or"}
    /\ (Lhs(rhs).eval = "not" \/ Rhs(rhs).eval = "not")

DeMorganAndApplies(lvl, lhs, rhs) ==
    /\ lhs # expr_true /\ rhs # expr_true /\ ~lhs.always_false
    /\ ~(lvl >= 2 /\ rhs.always_false /\ lhs.pure)
    /\ lhs.eval = "not" /\ rhs.eval = "not"

DeMorganOrApplies(lvl, lhs, rhs) ==
    /\ ~lhs.always_true /\ lhs # expr_false /\ rhs # expr_false
    /\ ~(lvl >= 2 /\ rhs.always_true /\ lhs.pure)
    /\ lhs.eval = "not" /\ rhs.eval = "not"

\* The last constructor call was a De Morgan rewrite.
DeMorganRewritten ==
    /\ ppc = "parse" /\ optlevel >= 1
    /\ \/ last.op = "not" /\ DeMorganNotApplies(last.args[1])
       \/ last.op = "and"
            /\ DeMorganAndApplies(optlevel, last.args[1], last.args[2])
       \/ last.op = "or"
            /\ DeMorganOrApplies(optlevel, last.args[1], last.args[2])

\* The node the last constructor call would have built without rewriting.
Original ==
    CASE last.op = "not" -> not_node(last.args[1])
      [] last.op = "and" -> and_node(last.args[1], last.args[2])
      [] last.op = "or" -> or_node(last.args[1], last.args[2])

\* C10 as claimed: a De Morgan rewrite returns a tree with the same boolean
\* value as the original on every assignment of truth values to the leaves.
C10_DeMorganSameValue ==
    DeMorganRewritten =>
        \A asg \in Assignments :
            Evaluate(Top(stack).opt, asg).ret = Evaluate(Original, asg).ret

\* C10 as amended: a De Morgan rewrite returns a tree with the same boolean
\* value as the original on every assignment on which evaluating the
\* original does not reach the quit action; and the rewritten tree sets the
\* quit flag exactly when the original does.
C10_DeMorganSameValueNoQuit ==
    DeMorganRewritten =>
        \A asg \in Assignments :
            /\ Evaluate(Top(stack).opt, asg).quit = Evaluate(Original, asg).quit
            /\ ~Evaluate(Original, asg).quit =>
                 Evaluate(Top(stack).opt, asg).ret = Evaluate(Original, asg).ret

\* A De Morgan rewrite of two negated tests has just been applied.
C10_Witness ==
    /\ DeMorganRewritten
    /\ last.op \in {"and", "or"}
    /\ \A asg \in Assignments : ~Evaluate(Original, asg).quit
    /\ \E asg \in Assignments : Evaluate(Original, asg).ret
    /\ \E asg \in Assignments : ~Evaluate(Original, asg).ret

----------------------------------------------------------------------------
\* The file system the walk runs on.  The tree is the finite unrolling the
\* walk can see from its root: node 1 is the root, and below a directory
\* that closes a loop (a symbolic link to, or a bind mount of, one of its
\* ancestors) the unrolling is cut.  Names are one character long, paths are
\* sequences of characters.

Nodes == 1..6

\* The parent of each node, and its name in the parent: r/{a/{d}, b/{c/{e}}}.
fs_parent == <<0, 1, 1, 3, 2, 4>>
fs_name == <<"r", "a", "b", "c", "d", "e">>

ENOENT == 2
EIO == 5
EACCES == 13
EINVAL == 22
EMFILE == 24
ELOOP == 40

AT_FDCWD == -100

\* One tree: for each node its kind by lstat(), the node a symbolic link
\* points to (0: nothing, the link is broken), its device and inode,
\* whether readdir() tells its type, the error of stat() and of opening it
\* (0: none); for a directory after how many entries readdir() fails (-1:
\* never) and whether closedir() fails; and the root path as given.
Tree(kind, target, dev, ino, dtype, serr, oerr, rerr, cerr, root) ==
    [kind |-> kind, target |-> target, dev |-> dev, ino |-> ino,
     dtype |-> dtype, serr |-> serr, oerr |-> oerr, rerr |-> rerr,
     cerr |-> cerr, root |-> root]

\* The same value for every node, and every node its own inode.
All(x) == [n \in Nodes |-> x]
OwnIno == [n \in Nodes |-> n]

\* Directories only, but for the file d.
PlainTree ==
    Tree(<<"dir", "dir", "dir", "dir", "reg", "dir">>, All(0), All(1),
         OwnIno, All(TRUE), All(0), All(0), All(-1), All(FALSE), <<"r">>)

\* e is a bind mount of b (a loop), a is a mount point on another device,
\* readdir() does not tell the type of c and d; the root is given as "r/".
MountTree ==
    Tree(<<"dir", "dir", "dir", "dir", "reg", "dir">>, All(0),
         <<1, 2, 1, 1, 2, 1>>, <<1, 2, 3, 4, 5, 3>>,
         <<TRUE, TRUE, TRUE, FALSE, FALSE, TRUE>>,
         All(0), All(0), All(-1), All(FALSE), <<"r", "/">>)

\* d is a symbolic link to r (a loop when followed), e is a broken link.
LinkTree ==
    Tree(<<"dir", "dir", "dir", "dir", "lnk", "lnk">>,
         <<0, 0, 0, 0, 1, 0>>, All(1), OwnIno, All(TRUE),
         All(0), All(0), All(-1), All(FALSE), <<"r">>)

\* stat() fails on d, whose type readdir() does not tell; closedir() fails
\* on a; readdir() fails in b after its first entry; c cannot be opened.
ErrorTree ==
    Tree(<<"dir", "dir", "dir", "dir", "reg", "reg">>, All(0), All(1),
         OwnIno, <<TRUE, TRUE, TRUE, TRUE, FALSE, TRUE>>,
         <<0, 0, 0, 0, EACCES, 0>>, <<0, 0, 0, EACCES, 0, 0>>,
         <<-1, -1, 1, -1, -1, -1>>,
         <<FALSE, TRUE, FALSE, FALSE, FALSE, FALSE>>, <<"r">>)

\* The root is a regular file.
FileTree ==
    Tree(<<"reg", "reg", "reg", "reg", "reg", "reg">>, All(0), All(1),
         OwnIno, All(TRUE), All(0), All(0), All(-1), All(FALSE), <<"r">>)

\* The directory a cannot be opened; b is a regular file.
OpenErrorTree ==
    Tree(<<"dir", "dir", "reg", "dir", "reg", "dir">>, All(0), All(1),
         OwnIno, All(TRUE), All(0), <<0, EACCES, 0, 0, 0, 0>>, All(-1),
         All(FALSE), <<"r">>)

\* readdir() fails in the root after its first entry; a and b are regular
\* files.
ReadErrorTree ==
    Tree(<<"dir", "reg", "reg", "dir", "reg", "dir">>, All(0), All(1),
         OwnIno, All(TRUE), All(0), All(0), <<1, -1, -1, -1, -1, -1>>,
         All(FALSE), <<"r">>)

\* The root is a symbolic link that leads nowhere.
BrokenRootTree ==
    Tree(<<"lnk", "reg", "reg", "reg", "reg", "reg">>, All(0), All(1),
         OwnIno, All(TRUE), All(0), All(0), All(-1), All(FALSE), <<"r">>)

\* Directories only: r/{a/{d}, b/{c/{e}}}.
DirsTree ==
    Tree(<<"dir", "dir", "dir", "dir", "dir", "dir">>, All(0), All(1),
         OwnIno, All(TRUE), All(0), All(0), All(-1), All(FALSE), <<"r">>)

Scenarios ==
    {PlainTree, MountTree, LinkTree, ErrorTree, FileTree, OpenErrorTree,
     ReadErrorTree, BrokenRootTree, DirsTree}

\* b is a regular file, which leaves r/{a/{d}, b}.
SmallTree ==
    Tree(<<"dir", "dir", "reg", "dir", "reg", "dir">>, All(0), All(1),
         OwnIno, All(TRUE), All(0), All(0), All(-1), All(FALSE), <<"r">>)

\* The node a symbolic link leads to, or the node itself; 0 if the link is
\* broken.
Followed(n) == IF fs.kind[n] = "lnk" THEN fs.target[n] ELSE n

\* Whether n can be listed: a directory, or a link to one.
IsDirNode(n) == Followed(n) # 0 /\ fs.kind[Followed(n)] = "dir"

\* The entries of directory n, in readdir() order.  Below a loop the
\* unrolling is cut.
RECURSIVE ChildrenFrom(_, _)
ChildrenFrom(n, k) ==
    IF k > 6 THEN <<>>
    ELSE IF fs_parent[k] = n THEN <<k>> \o ChildrenFrom(n, k + 1)
    ELSE ChildrenFrom(n, k + 1)

Children(n) == IF IsDirNode(n) THEN ChildrenFrom(n, 1) ELSE <<>>

\* The entry of directory n called c (one character); 0 if there is none.
Lookup(n, c) ==
    IF n = 0 \/ ~IsDirNode(n) THEN 0
    ELSE IF \E k \in Nodes : fs_parent[k] = n /\ fs_name[k] = c
         THEN CHOOSE k \in Nodes : fs_parent[k] = n /\ fs_name[k] = c
         ELSE 0

\* Path resolution: walk the components of path p from position i on,
\* starting in node n (0: the working directory, which holds the root of
\* the walk and nothing else).  The result is the node reached, or 0.
RECURSIVE Walk(_, _, _)
Walk(n, p, i) ==
    IF i > Len(p) THEN n
    ELSE IF p[i] = "/" THEN Walk(n, p, i + 1)
    ELSE IF i < Len(p) /\ p[i + 1] # "/" THEN 0
    ELSE LET next == IF n = 0
                     THEN (IF p[i] = fs_name[1] THEN 1 ELSE 0)
                     ELSE Lookup(n, p[i])
         IN  IF next = 0 THEN 0 ELSE Walk(next, p, i + 1)

\* The node that path p names relative to descriptor fd: AT_FDCWD, or a
\* descriptor, which is modelled by the node of the directory it is open on.
ResolveAt(fd, p) ==
    IF p = <<>> \/ fd = -1 THEN 0
    ELSE IF fd = AT_FDCWD THEN Walk(0, p, 1)
    ELSE Walk(fd, p, 1)

----------------------------------------------------------------------------
\* Dynamic strings (dstring.h): a buffer of characters, its length, and a
\* terminating NUL right after it.  What a fresh part of the buffer holds is
\* not defined ("?").

NUL == "NUL"

dstralloc == [buf |-> <<NUL>>, len |-> 0]

RECURSIVE Fill(_)
Fill(n) == IF n <= 0 THEN <<>> ELSE <<"?">> \o Fill(n - 1)

\* dstresize(): set the length, growing the buffer if needed, and terminate.
dstresize(d, length) ==
    LET grown == d.buf \o Fill(length + 1 - Len(d.buf))
    IN  [buf |-> [grown EXCEPT ![length + 1] = NUL], len |-> length]

\* memcpy(dest + off, src, Len(src)) into the buffer.
memcpy(buf, off, src) ==
    [i \in 1..Len(buf) |->
        IF i > off /\ i <= off + Len(src) THEN src[i - off] ELSE buf[i]]

\* dstrcat(): append a string.
dstrcat(d, str) ==
    LET r == dstresize(d, d.len + Len(str))
    IN  [r EXCEPT !.buf = memcpy(r.buf, d.len, str)]

\* The C string that starts at offset off of the buffer.
RECURSIVE CStringLen(_, _)
CStringLen(buf, i) ==
    IF i > Len(buf) \/ buf[i] = NUL THEN 0 ELSE 1 + CStringLen(buf, i + 1)

CString(buf, off) == SubSeq(buf, off + 1, off + CStringLen(buf, off + 1))

\* xbasename(): the offset of the last component of a path, trailing
\* slashes apart.
RECURSIVE SkipSlashesBack(_, _)
SkipSlashesBack(p, i) ==
    IF i > 1 /\ p[i] = "/" THEN SkipSlashesBack(p, i - 1) ELSE i

RECURSIVE SkipNameBack(_, _)
SkipNameBack(p, i) ==
    IF i > 0 /\ p[i] # "/" THEN SkipNameBack(p, i - 1) ELSE i

xbasename(p) ==
    IF p = <<>> THEN 0 ELSE SkipNameBack(p, SkipSlashesBack(p, Len(p)))

----------------------------------------------------------------------------
\* The dircache: the entries, and a heap of the entries that hold an open
\* descriptor.  An entry is known by its place in memory, 0 being NULL;
\* state.ent holds the entries, state.heap the first `size' slots of the heap
\* array (heap[i] of the code is state.heap[i + 1]), state.slots the number
\* of slots allocated.

\* How many entries the memory can hold: malloc() fails beyond.
MaxEntries == 6

Entries == 1..MaxEntries

ENOMEM == 12

\* An entry that is not allocated.  live and node are not fields of the
\* code: whether the entry is allocated, and the node it was made for.
NoEntry ==
    [parent |-> 0, depth |-> 0, refcount |-> 0, heap_index |-> 0, fd |-> -1,
     dev |-> -1, ino |-> -1, nameoff |-> 0, namelen |-> 0, name |-> <<>>,
     live |-> FALSE, node |-> 0]

\* malloc() of an entry: the first place that is free, 0 if there is none.
malloc(s) ==
    IF \E e \in Entries : ~s.ent[e].live
    THEN CHOOSE e \in Entries :
             ~s.ent[e].live /\ \A f \in Entries : f < e => s.ent[f].live
    ELSE 0

\* assert(cond): a failed assertion is recorded, and the code goes on as it
\* does when built with NDEBUG.
assert(s, cond, what) ==
    IF cond THEN s ELSE [s EXCEPT !.asserts = @ \cup {what}]

dircache_heap_check(parent, child) ==
    IF parent.depth > child.depth THEN TRUE
    ELSE IF parent.depth < child.depth THEN FALSE
    ELSE parent.refcount <= child.refcount

dircache_heap_move(s, entry, i) ==
    [s EXCEPT !.heap[i + 1] = entry, !.ent[entry].heap_index = i]

RECURSIVE bubble_up_loop(_, _, _)
bubble_up_loop(s, entry, i) ==
    LET pi == (i - 1) \div 2
    IN  IF i > 0 /\ ~dircache_heap_check(s.ent[s.heap[pi + 1]], s.ent[entry])
        THEN bubble_up_loop(dircache_heap_move(s, s.heap[pi + 1], i),
                            entry, pi)
        ELSE dircache_heap_move(s, entry, i)

dircache_bubble_up(s, entry) ==
    bubble_up_loop(s, entry, s.ent[entry].heap_index)

RECURSIVE bubble_down_loop(_, _, _)
bubble_down_loop(s, entry, i) ==
    LET size == Len(s.heap)
        li == 2 * i + 1
        ri == li + 1
        ci == IF ri < size /\ ~dircache_heap_check(s.ent[s.heap[li + 1]],
                                                    s.ent[s.heap[ri + 1]])
              THEN ri ELSE li
    IN  IF li >= size THEN dircache_heap_move(s, entry, i)
        ELSE bubble_down_loop(dircache_heap_move(s, s.heap[ci + 1], i),
                              entry, ci)

dircache_bubble_down(s, entry) ==
    bubble_down_loop(s, entry, s.ent[entry].heap_index)

dircache_entry_incref(s, entry) ==
    LET s1 == [s EXCEPT !.ent[entry].refcount = @ + 1]
    IN  IF s1.ent[entry].fd >= 0 THEN dircache_bubble_down(s1, entry) ELSE s1

dircache_entry_decref(s, entry) ==
    LET s1 == [s EXCEPT !.ent[entry].refcount = @ - 1]
    IN  IF s1.ent[entry].fd >= 0 THEN dircache_bubble_up(s1, entry) ELSE s1

dircache_push(s, entry) ==
    LET s1 == assert(s, Len(s.heap) < s.capacity, "push: size < capacity")
        s2 == assert(s1, s.ent[entry].fd >= 0, "push: fd >= 0")
        s3 == [s2 EXCEPT !.heap = Append(@, entry),
                         !.ent[entry].heap_index = Len(s.heap),
                         !.ub = IF Len(s.heap) >= s.slots
                                THEN @ \cup {"heap overrun"} ELSE @]
    IN  dircache_bubble_up(s3, entry)

dircache_pop(s, entry) ==
    LET s1 == assert(s, Len(s.heap) > 0, "pop: size > 0")
        s2 == assert(s1, s.ent[entry].fd >= 0, "pop: fd >= 0")
        size == Len(s.heap) - 1
        i == s.ent[entry].heap_index
        end == s.heap[size + 1]
        s3 == [s2 EXCEPT !.ent[entry].fd = -1,
                         !.heap = SubSeq(@, 1, size)]
    IN  IF Len(s.heap) = 0 THEN [s2 EXCEPT !.ent[entry].fd = -1]
        ELSE IF i # size
        THEN dircache_bubble_down([s3 EXCEPT !.ent[end].heap_index = i], end)
        ELSE s3

\* dircache_add() that takes no reference to the parent.
dircache_add_no_incref(s, parent, name, node) ==
    LET entry == malloc(s)
        full == IF name = <<>> \/ name[Len(name)] # "/"
                THEN name \o <<"/">> ELSE name
        new == [NoEntry EXCEPT
                   !.live = TRUE, !.node = node, !.parent = parent,
                   !.depth = IF parent # 0 THEN s.ent[parent].depth + 1
                             ELSE 0,
                   !.nameoff = IF parent # 0
                               THEN s.ent[parent].nameoff
                                    + s.ent[parent].namelen
                               ELSE 0,
                   !.refcount = 1, !.name = full, !.namelen = Len(full)]
    IN  IF entry = 0
        THEN [s |-> [s EXCEPT !.errno = ENOMEM], entry |-> 0]
        ELSE [s |-> [s EXCEPT !.ent[entry] = new], entry |-> entry]

\* dircache_add() for the file at node: [s, entry], entry = 0 for NULL.
dircache_add(s, parent, name, node) ==
    LET entry == malloc(s)
        needs_slash == name = <<>> \/ name[Len(name)] # "/"
        full == IF needs_slash THEN name \o <<"/">> ELSE name
        new == [NoEntry EXCEPT
                   !.live = TRUE,
                   !.node = node,
                   !.parent = parent,
                   !.depth = IF parent # 0 THEN s.ent[parent].depth + 1
                             ELSE 0,
                   !.nameoff = IF parent # 0
                               THEN s.ent[parent].nameoff
                                    + s.ent[parent].namelen
                               ELSE 0,
                   !.refcount = 1,
                   !.name = full,
                   !.namelen = Len(full)]
        s1 == IF parent # 0 THEN dircache_entry_incref(s, parent) ELSE s
    IN  IF entry = 0
        THEN [s |-> [s EXCEPT !.errno = ENOMEM], entry |-> 0]
        ELSE [s |-> [s1 EXCEPT !.ent[entry] = new], entry |-> entry]

\* dircache_entry_base(): the closest open ancestor entry, or 0.
RECURSIVE base_loop(_, _)
base_loop(s, base) ==
    IF base # 0 /\ s.ent[base].fd < 0
    THEN base_loop(s, s.ent[base].parent)
    ELSE base

dircache_entry_base(s, entry) == base_loop(s, s.ent[entry].parent)

\* The at_fd and the offset of at_path that dircache_entry_base() sets.
base_fd(s, base) == IF base # 0 THEN s.ent[base].fd ELSE AT_FDCWD

base_off(s, base) ==
    IF base # 0 THEN s.ent[base].nameoff + s.ent[base].namelen ELSE 0

\* A dircache_should_retry() that closes heap[0] whatever save is.
dircache_should_retry_first(s, save) ==
    IF s.errno = EMFILE /\ Len(s.heap) > 1
    THEN [s |-> [dircache_pop(s, s.heap[1]) EXCEPT
                    !.capacity = Len(s.heap) - 1],
          retry |-> TRUE]
    ELSE [s |-> s, retry |-> FALSE]

\* dircache_should_retry(): [s, retry].
dircache_should_retry(s, save) ==
    LET shrunk(s1) ==
            [s |-> [s1 EXCEPT !.capacity = Len(s1.heap)], retry |-> TRUE]
    IN  IF s.errno = EMFILE /\ Len(s.heap) > 1
        THEN shrunk(dircache_pop(s, IF s.heap[1] = save THEN s.heap[2]
                                    ELSE s.heap[1]))
        ELSE [s |-> s, retry |-> FALSE]

\* dircache_entry_free()
dircache_entry_free(s, entry) ==
    IF entry = 0 THEN s
    ELSE LET s1 == assert(s, s.ent[entry].refcount = 0, "free: refcount = 0")
             s2 == IF s1.ent[entry].fd >= 0 THEN dircache_pop(s1, entry)
                   ELSE s1
         IN  [s2 EXCEPT !.ent[entry] = NoEntry]

----------------------------------------------------------------------------
\* The system calls, against the tree.

ENOTDIR == 20

\* A fstatat() that follows the link whatever the flags say.
fstatat_follow(at_fd, path, nofollow) ==
    LET failed(err) ==
            [err |-> err, mode |-> "none", dev |-> -1, ino |-> -1]
        of(n, t) ==
            IF n = 0 THEN failed(ENOENT)
            ELSE IF fs.serr[n] # 0 THEN failed(fs.serr[n])
            ELSE IF t = 0 THEN failed(ENOENT)
            ELSE [err |-> 0, mode |-> fs.kind[t], dev |-> fs.dev[t],
                  ino |-> fs.ino[t]]
        named(n) == of(n, IF n # 0 THEN Followed(n) ELSE n)
    IN  named(ResolveAt(at_fd, path))

\* A fstatat() that takes every file for a directory.
fstatat_as_dir(at_fd, path, nofollow) ==
    [err |-> 0, mode |-> "dir", dev |-> 1, ino |-> 1]

\* fstatat(at_fd, path, &sb, flags): [err, mode, dev, ino]; the mode is
\* given by the kind of the file.
fstatat(at_fd, path, nofollow) ==
    LET failed(err) ==
            [err |-> err, mode |-> "none", dev |-> -1, ino |-> -1]
        \* n is the file named, t the file the result is about.
        of(n, t) ==
            IF n = 0 THEN failed(ENOENT)
            ELSE IF fs.serr[n] # 0 THEN failed(fs.serr[n])
            ELSE IF t = 0 THEN failed(ENOENT)
            ELSE [err |-> 0, mode |-> fs.kind[t], dev |-> fs.dev[t],
                  ino |-> fs.ino[t]]
        named(n) == of(n, IF n # 0 /\ ~nofollow THEN Followed(n) ELSE n)
    IN  named(ResolveAt(at_fd, path))

\* openat(at_fd, path, O_RDONLY | O_CLOEXEC | O_DIRECTORY): [err, fd]; full
\* says that the process has no descriptor left.
openat(at_fd, path, full) ==
    LET named(n) ==
            IF n = 0 THEN [err |-> ENOENT, fd |-> -1]
            ELSE IF fs.oerr[n] # 0 THEN [err |-> fs.oerr[n], fd |-> -1]
            ELSE IF ~IsDirNode(n) THEN [err |-> ENOTDIR, fd |-> -1]
            ELSE [err |-> 0, fd |-> n]
    IN  IF full THEN [err |-> EMFILE, fd |-> -1]
        ELSE named(ResolveAt(at_fd, path))

\* xreaddir(dir, &de) on the stream of node n that has given pos entries:
\* [err, de], de = 0 at the end.  "." and ".." are left out here, as the
\* loop of bftw() leaves them out.
xreaddir(n, pos) ==
    IF fs.rerr[n] = pos THEN [err |-> EIO, de |-> 0]
    ELSE IF pos >= Len(Children(n)) THEN [err |-> 0, de |-> 0]
    ELSE [err |-> 0, de |-> Children(n)[pos + 1]]

\* mode_to_typeflag(), on the kind of file a mode stands for.
mode_to_typeflag(mode) ==
    CASE mode = "dir" -> "DIR"
      [] mode = "reg" -> "REG"
      [] mode = "lnk" -> "LNK"
      [] OTHER -> "UNKNOWN"

\* dirent_to_typeflag(): by d_type, which may be DT_UNKNOWN.
dirent_to_typeflag(de) ==
    IF fs.dtype[de] THEN mode_to_typeflag(fs.kind[de]) ELSE "UNKNOWN"

----------------------------------------------------------------------------
\* The dirqueue: a circular buffer; entries[i] of the code is
\* queue.entries[i + 1].

\* The initial capacity of the queue is 2^QueueLog2 (256 in the code).
QueueLog2 == 1

RECURSIVE Pow2(_)
Pow2(n) == IF n = 0 THEN 1 ELSE 2 * Pow2(n - 1)

dirqueue_init ==
    [entries |-> [i \in 1..Pow2(QueueLog2) |-> 0], head |-> 0, size |-> 0,
     capacity |-> Pow2(QueueLog2)]

\* A dirqueue_push() that doubles the buffer and leaves the entries where
\* they are.
dirqueue_push_in_place(queue, entry) ==
    LET tail == queue.head + queue.size
        grow == queue.size = queue.capacity
        capacity == IF grow THEN 2 * queue.capacity ELSE queue.capacity
        entries == IF grow
                   THEN [i \in 1..capacity |->
                            IF i <= queue.size THEN queue.entries[i] ELSE 0]
                   ELSE queue.entries
    IN  [entries |-> [entries EXCEPT ![(tail % capacity) + 1] = entry],
         head |-> queue.head, size |-> queue.size + 1, capacity |-> capacity]

dirqueue_push(queue, entry) ==
    LET head == queue.head
        size == queue.size
        tail == head + size
        grow == size = queue.capacity
        capacity == IF grow THEN 2 * queue.capacity ELSE queue.capacity
        entries == IF grow
                   THEN [i \in 1..capacity |->
                            IF i <= size THEN queue.entries[i]
                            ELSE IF i - 1 < tail THEN queue.entries[i - size]
                            ELSE 0]
                   ELSE queue.entries
    IN  [entries |-> [entries EXCEPT ![(tail % capacity) + 1] = entry],
         head |-> head, size |-> size + 1, capacity |-> capacity]

\* dirqueue_pop() taking the entry pushed last.
dirqueue_pop_lifo(queue) ==
    IF queue.size = 0 THEN [queue |-> queue, entry |-> 0]
    ELSE [queue |-> [queue EXCEPT !.size = @ - 1],
          entry |-> queue.entries[
                        ((queue.head + queue.size - 1) % queue.capacity) + 1]]

\* dirqueue_pop(): [queue, entry]
dirqueue_pop(queue) ==
    IF queue.size = 0 THEN [queue |-> queue, entry |-> 0]
    ELSE [queue |-> [queue EXCEPT !.size = @ - 1,
                                  !.head = (@ + 1) % queue.capacity],
          entry |-> queue.entries[queue.head + 1]]

----------------------------------------------------------------------------
\* struct bftw_state and the functions on it.

Flags == {"STAT", "RECOVER", "DEPTH", "LOGICAL", "COMFOLLOW",
          "DETECT_CYCLES", "XDEV"}

Actions == {"CONTINUE", "SKIP_SIBLINGS", "SKIP_SUBTREE", "STOP"}

\* What a callback may return: an action, or something else.
Returns == Actions \cup {"INVALID"}

BFTW_FAIL == "FAIL"

\* A NULL statbuf.
NoStat == [mode |-> "none", dev |-> -1, ino |-> -1]

NoFtwbuf ==
    [path |-> <<>>, nameoff |-> 0, depth |-> 0, visit |-> "PRE",
     typeflag |-> "UNKNOWN", statbuf |-> NoStat, at_fd |-> AT_FDCWD,
     at_off |-> 0, at_flags |-> "NOFOLLOW", error |-> 0]

\* bftw_state_init(), for a cache of the given capacity.
bftw_state_init(flags, capacity) ==
    [flags |-> flags, error |-> 0, errno |-> 0, asserts |-> {}, ub |-> {},
     heap |-> <<>>, capacity |-> capacity, slots |-> capacity,
     ent |-> [e \in Entries |-> NoEntry],
     queue |-> dirqueue_init,
     current |-> 0, last |-> 0, dir |-> 0, dirpos |-> 0,
     status |-> "CURRENT", path |-> dstralloc, ftwbuf |-> NoFtwbuf]

RECURSIVE build_path_last(_, _, _)
build_path_last(s, prev, depth) ==
    IF prev # 0 /\ s.ent[prev].depth > depth
    THEN build_path_last(s, s.ent[prev].parent, depth)
    ELSE prev

RECURSIVE build_path_loop(_, _, _, _)
build_path_loop(s, buf, entry, prev) ==
    IF entry = prev THEN buf
    ELSE build_path_loop(s,
             memcpy(buf, s.ent[entry].nameoff, s.ent[entry].name),
             s.ent[entry].parent,
             IF prev # 0 /\ s.ent[prev].depth = s.ent[entry].depth
             THEN s.ent[prev].parent ELSE prev)

bftw_build_path(s) ==
    LET entry == s.current
        pathlen == s.ent[entry].nameoff + s.ent[entry].namelen
        path == dstresize(s.path, pathlen)
        prev == build_path_last(s, s.last, s.ent[entry].depth)
    IN  [s EXCEPT !.path = [path EXCEPT
                               !.buf = build_path_loop(s, @, entry, prev)],
                  !.last = s.current,
                  !.ub = IF s.last # 0 /\ ~s.ent[s.last].live
                         THEN @ \cup {"last is freed"} ELSE @]

bftw_path_concat(s, subpath) ==
    LET nameoff == IF s.current # 0
                   THEN s.ent[s.current].nameoff + s.ent[s.current].namelen
                   ELSE 0
    IN  [s EXCEPT !.status = "CHILD",
                  !.path = dstrcat(dstresize(@, nameoff), subpath)]

bftw_path_trim(s) ==
    LET current == s.ent[s.current]
        trim == current.depth # 0 /\ current.namelen > 1
        length == IF current.depth = 0 THEN Len(fs.root)
                  ELSE IF trim THEN current.nameoff + current.namelen - 1
                  ELSE current.nameoff + current.namelen
    IN  [s EXCEPT !.last = IF trim THEN current.parent ELSE @,
                  !.path = dstresize(@, length),
                  !.status = IF @ = "CHILD" THEN "CURRENT" ELSE @]

\* A bftw_set_error() that leaves state->error alone.
bftw_set_error_no_record(s, error) ==
    [s EXCEPT !.ftwbuf.error = error, !.ftwbuf.typeflag = "ERROR"]

bftw_set_error(s, error) ==
    [s EXCEPT !.ftwbuf.error = error,
              !.ftwbuf.typeflag = "ERROR",
              !.error = IF "RECOVER" \notin s.flags THEN error ELSE @]

\* The loop of bftw_init_buffers() looking at the first entry only.
cycle_loop_parent_only(s, entry, dev, ino) ==
    entry # 0 /\ dev = s.ent[entry].dev /\ ino = s.ent[entry].ino

\* Whether (dev, ino) is the directory of entry or of one of its ancestors.
RECURSIVE cycle_loop(_, _, _, _)
cycle_loop(s, entry, dev, ino) ==
    IF entry = 0 THEN FALSE
    ELSE IF dev = s.ent[entry].dev /\ ino = s.ent[entry].ino THEN TRUE
    ELSE cycle_loop(s, s.ent[entry].parent, dev, ino)

\* ftwbuf_stat() that leaves the type as it is.
ftwbuf_stat_keep_type(s, nofollow) ==
    LET stored(sb) ==
            IF sb.err # 0
            THEN [s |-> [s EXCEPT !.errno = sb.err], ret |-> -1]
            ELSE [s |-> [s EXCEPT !.ftwbuf.statbuf =
                                      [mode |-> sb.mode, dev |-> sb.dev,
                                       ino |-> sb.ino]],
                  ret |-> 0]
    IN  stored(fstatat(s.ftwbuf.at_fd,
                       CString(s.path.buf, s.ftwbuf.at_off), nofollow))

\* ftwbuf_stat(), not following a final symbolic link if nofollow: [s, ret].
ftwbuf_stat(s, nofollow) ==
    LET stored(sb) ==
            IF sb.err # 0
            THEN [s |-> [s EXCEPT !.errno = sb.err], ret |-> -1]
            ELSE [s |-> [s EXCEPT !.ftwbuf.statbuf =
                                      [mode |-> sb.mode, dev |-> sb.dev,
                                       ino |-> sb.ino],
                                  !.ftwbuf.typeflag =
                                      mode_to_typeflag(sb.mode)],
                  ret |-> 0]
    IN  stored(fstatat(s.ftwbuf.at_fd,
                       CString(s.path.buf, s.ftwbuf.at_off), nofollow))

\* bftw_init_buffers(state, de), de = 0 standing for NULL.
bftw_init_buffers(s, de) ==
    LET current == s.current
        child == current # 0 /\ s.status = "CHILD"
        base == IF current # 0 /\ ~child
                THEN dircache_entry_base(s, current) ELSE 0
        depth == IF current = 0 THEN 0
                 ELSE s.ent[current].depth + (IF child THEN 1 ELSE 0)
        off == IF current = 0 THEN 0
               ELSE s.ent[current].nameoff
                    + (IF child THEN s.ent[current].namelen ELSE 0)
        typeflag == IF de # 0 THEN dirent_to_typeflag(de)
                    ELSE IF s.status # "CHILD" THEN "DIR"
                    ELSE "UNKNOWN"
        follow == "LOGICAL" \in s.flags
                  \/ (depth = 0 /\ "COMFOLLOW" \in s.flags)
        detect_cycles == "DETECT_CYCLES" \in s.flags /\ s.status = "CHILD"
        xdev == "XDEV" \in s.flags
        buf(path) ==
            [path |-> path,
             nameoff |-> IF depth = 0 THEN xbasename(path) ELSE off,
             depth |-> depth,
             visit |-> IF s.status = "GC" THEN "POST" ELSE "PRE",
             typeflag |-> typeflag, statbuf |-> NoStat,
             at_fd |-> IF current = 0 THEN AT_FDCWD
                       ELSE IF child THEN s.ent[current].fd
                       ELSE base_fd(s, base),
             at_off |-> IF current = 0 THEN 0
                        ELSE IF child THEN off
                        ELSE base_off(s, base),
             at_flags |-> IF follow THEN "FOLLOW" ELSE "NOFOLLOW",
             error |-> 0]
        \* After the stat: the error, or the loop, if there is one.
        checked(st) ==
            IF st.ret # 0 THEN bftw_set_error(st.s, st.s.errno)
            ELSE IF st.s.ftwbuf.typeflag = "DIR" /\ detect_cycles
                    /\ cycle_loop(s, current, st.s.ftwbuf.statbuf.dev,
                                  st.s.ftwbuf.statbuf.ino)
            THEN bftw_set_error(st.s, ELOOP)
            ELSE st.s
        \* A link that leads nowhere is looked at itself.
        retried(first) ==
            checked(IF first.ret # 0 /\ follow /\ first.s.errno = ENOENT
                    THEN ftwbuf_stat(
                             [first.s EXCEPT !.ftwbuf.at_flags = "NOFOLLOW"],
                             TRUE)
                    ELSE first)
        filled(s1) ==
            IF "STAT" \in s.flags
               \/ typeflag = "UNKNOWN"
               \/ (typeflag = "LNK" /\ follow)
               \/ (typeflag = "DIR" /\ (detect_cycles \/ xdev))
            THEN retried(ftwbuf_stat(s1, ~follow))
            ELSE s1
    IN  filled([s EXCEPT !.ftwbuf = buf(CString(s.path.buf, 0))])

\* A bftw_handle_path() that takes BFTW_SKIP_SUBTREE for BFTW_CONTINUE.
bftw_handle_path_no_skip(s, r) ==
    IF s.ftwbuf.typeflag = "ERROR" /\ "RECOVER" \notin s.flags
    THEN [s |-> s, action |-> BFTW_FAIL, called |-> FALSE]
    ELSE IF r \in Actions
    THEN [s |-> s, action |-> IF r = "SKIP_SUBTREE" THEN "CONTINUE" ELSE r,
          called |-> TRUE]
    ELSE [s |-> [s EXCEPT !.error = EINVAL], action |-> BFTW_FAIL,
          called |-> TRUE]

\* A bftw_handle_path() that takes BFTW_SKIP_SIBLINGS for BFTW_CONTINUE.
bftw_handle_path_no_siblings(s, r) ==
    IF s.ftwbuf.typeflag = "ERROR" /\ "RECOVER" \notin s.flags
    THEN [s |-> s, action |-> BFTW_FAIL, called |-> FALSE]
    ELSE IF r \in Actions
    THEN [s |-> s, action |-> IF r = "SKIP_SIBLINGS" THEN "CONTINUE" ELSE r,
          called |-> TRUE]
    ELSE [s |-> [s EXCEPT !.error = EINVAL], action |-> BFTW_FAIL,
          called |-> TRUE]

\* A bftw_handle_path() that goes on after a value that is no action.
bftw_handle_path_default(s, r) ==
    IF s.ftwbuf.typeflag = "ERROR" /\ "RECOVER" \notin s.flags
    THEN [s |-> s, action |-> BFTW_FAIL, called |-> FALSE]
    ELSE [s |-> s, action |-> IF r \in Actions THEN r ELSE "CONTINUE",
          called |-> TRUE]

\* bftw_handle_path(), the callback returning r: [s, action, called].
bftw_handle_path(s, r) ==
    IF s.ftwbuf.typeflag = "ERROR" /\ "RECOVER" \notin s.flags
    THEN [s |-> s, action |-> BFTW_FAIL, called |-> FALSE]
    ELSE IF r \in Actions
    THEN [s |-> s, action |-> r, called |-> TRUE]
    ELSE [s |-> [s EXCEPT !.error = EINVAL], action |-> BFTW_FAIL,
          called |-> TRUE]

\* A bftw_add() that does not note the device and inode of the directory.
bftw_add_no_dev(s, name, node) == dircache_add(s, s.current, name, node)

\* bftw_add() for the file at node: [s, entry], entry = 0 for NULL.
bftw_add(s, name, node) ==
    LET statbuf == s.ftwbuf.statbuf
        added(a) ==
            IF a.entry # 0 /\ statbuf # NoStat
            THEN [s |-> [a.s EXCEPT !.ent[a.entry].dev = statbuf.dev,
                                    !.ent[a.entry].ino = statbuf.ino],
                  entry |-> a.entry]
            ELSE a
    IN  added(dircache_add(s, s.current, name, node))

\* bftw_push() for the file at node: [s, err].
bftw_push(s, name, node) ==
    LET added(a) ==
            IF a.entry = 0 THEN [s |-> a.s, err |-> TRUE]
            ELSE [s |-> [a.s EXCEPT !.queue = dirqueue_push(@, a.entry)],
                  err |-> FALSE]
    IN  added(bftw_add(s, name, node))

\* dircache_entry_open(cache, entry, path): [s, dir, used].  full[1] and
\* full[2] say whether the first and the second openat() find the process
\* out of descriptors, full[3] and full[4] the same of the two dup()s; used
\* counts those that did.  dir is the node the stream is open on, 0 for NULL.
dircache_entry_open(s, entry, full) ==
    LET s0 == assert(s, s.ent[entry].fd < 0, "open: fd < 0")
        n1(again) == (IF full[1] THEN 1 ELSE 0)
                     + (IF again /\ full[2] THEN 1 ELSE 0)
        n2(again) == (IF full[3] THEN 1 ELSE 0)
                     + (IF again /\ full[4] THEN 1 ELSE 0)
        \* fdopendir() of what dup_cloexec() gave, if anything.
        dupped(r2, n) ==
            [s |-> r2.s,
             dir |-> IF (IF r2.retry THEN full[4] ELSE full[3]) THEN 0
                     ELSE r2.s.ent[entry].fd,
             used |-> n + n2(r2.retry)]
        \* dup_cloexec(entry->fd), once more if dircache_should_retry().
        pushed(s3, n) ==
            dupped(IF full[3]
                   THEN dircache_should_retry([s3 EXCEPT !.errno = EMFILE],
                                              entry)
                   ELSE [s |-> s3, retry |-> FALSE],
                   n)
        \* The outcome o2 of openat(): NULL, or the descriptor is pushed.
        opened(s2, o2, n) ==
            IF o2.err # 0
            THEN [s |-> [s2 EXCEPT !.errno = o2.err], dir |-> 0, used |-> n]
            ELSE pushed(dircache_push([s2 EXCEPT !.ent[entry].fd = o2.fd],
                                      entry),
                        n)
        \* openat() once more if dircache_should_retry().
        retried(r1, at_fd, at_path, o1) ==
            opened(r1.s,
                   IF r1.retry THEN openat(at_fd, at_path, full[2]) ELSE o1,
                   n1(r1.retry))
        tried(s1, base, at_fd, at_path, o1) ==
            retried(IF o1.err # 0
                    THEN dircache_should_retry([s1 EXCEPT !.errno = o1.err],
                                               base)
                    ELSE [s |-> s1, retry |-> FALSE],
                    at_fd, at_path, o1)
        \* The first openat(), relative to the closest open ancestor.
        relative(s1, base, at_fd, at_path) ==
            tried(s1, base, at_fd, at_path, openat(at_fd, at_path, full[1]))
        based(s1, base) ==
            relative(s1, base, base_fd(s1, base),
                     CString(s1.path.buf, base_off(s1, base)))
        \* s1: the cache with room for one more descriptor.
        room(s1) == based(s1, dircache_entry_base(s1, entry))
    IN  room(IF Len(s0.heap) = s0.capacity
             THEN dircache_pop(s0, s0.heap[1]) ELSE s0)

\* bftw_opendir()
bftw_opendir(s, full) ==
    LET opened(o) ==
            [s |-> [o.s EXCEPT !.dir = o.dir, !.dirpos = 0],
             used |-> o.used]
    IN  opened(dircache_entry_open(assert(s, s.dir = 0, "opendir: !dir"),
                                   s.current, full))

\* bftw_closedir(): [s, err]
bftw_closedir(s) ==
    [s |-> [s EXCEPT !.dir = 0,
                     !.errno = IF s.dir # 0 /\ fs.cerr[s.dir] THEN EIO
                               ELSE @],
     err |-> s.dir # 0 /\ fs.cerr[s.dir]]

\* The record of a callback invocation: the struct BFTW passed, the node
\* the invocation is about, and the nodes that path and (at_fd, at_path)
\* name at the time of the call.
Invocation(s, node, r) ==
    [node |-> node, ret |-> IF ptr THEN r ELSE "-",
     path |-> s.ftwbuf.path, nameoff |-> s.ftwbuf.nameoff,
     depth |-> s.ftwbuf.depth, visit |-> s.ftwbuf.visit,
     typeflag |-> s.ftwbuf.typeflag, statbuf |-> s.ftwbuf.statbuf,
     at_fd |-> s.ftwbuf.at_fd,
     at_path |-> CString(s.path.buf, s.ftwbuf.at_off),
     at_flags |-> s.ftwbuf.at_flags, error |-> s.ftwbuf.error,
     path_node |-> ResolveAt(AT_FDCWD, s.ftwbuf.path),
     at_node |-> ResolveAt(s.ftwbuf.at_fd,
                           CString(s.path.buf, s.ftwbuf.at_off))]

\* One turn of the loop of bftw_gc() on entry, a callback returning r:
\* [s, entry, invoke, ret, called, inv], entry = 0 when the loop is left.
bftw_gc_turn(s, entry, invoke, ret, r) ==
    LET \* dircache_entry_free(), and on to the parent.
        freed(s2, go_on, result, called) ==
            [s |-> dircache_entry_free(s2, entry),
             entry |-> s2.ent[entry].parent,
             invoke |-> go_on, ret |-> result, called |-> called]
        handled(h) ==
            IF h.action \in {"STOP", BFTW_FAIL}
            THEN freed(h.s, FALSE, h.action, h.called)
            ELSE freed(h.s, TRUE, ret, h.called)
        turn(s1) ==
            IF s1.ent[entry].refcount > 0
            THEN [s |-> [s1 EXCEPT !.last = entry], entry |-> 0,
                  invoke |-> invoke, ret |-> ret, called |-> FALSE]
            ELSE IF invoke
            THEN handled(bftw_handle_path(
                             bftw_init_buffers(
                                 bftw_path_trim(
                                     [s1 EXCEPT !.current = entry]), 0),
                             r))
            ELSE freed(s1, FALSE, ret, FALSE)
    IN  turn(dircache_entry_decref(s, entry))

\* What is passed to the callback in that turn.
bftw_gc_invocation(s, entry, r) ==
    Invocation(bftw_init_buffers(
                   bftw_path_trim([dircache_entry_decref(s, entry)
                                      EXCEPT !.current = entry]), 0),
               s.ent[entry].node, r)

\* The loop of bftw_gc() from entry on, with no callback left to invoke.
RECURSIVE bftw_gc_quiet(_, _)
bftw_gc_quiet(s, entry) ==
    LET next(t) == bftw_gc_quiet(t.s, t.entry)
    IN  IF entry = 0 THEN s
        ELSE next(bftw_gc_turn(s, entry, FALSE, "CONTINUE", "CONTINUE"))

\* bftw_pop() after its bftw_gc()
bftw_pop_queue(s) ==
    LET p == dirqueue_pop(s.queue)
    IN  [s EXCEPT !.queue = p.queue, !.current = p.entry,
                  !.status = "CURRENT"]

\* bftw_pop(state, false)
bftw_pop_quiet(s) ==
    bftw_pop_queue(bftw_gc_quiet([s EXCEPT !.status = "GC"], s.current))

\* A bftw_state_free() that pops the queue once.
state_free_loop_once(s) ==
    IF s.current = 0 THEN s ELSE bftw_pop_quiet(s)

\* bftw_state_free()
RECURSIVE state_free_loop(_)
state_free_loop(s) ==
    IF s.current = 0 THEN s ELSE state_free_loop(bftw_pop_quiet(s))

bftw_state_free(s) ==
    LET freed(s1) == assert(s1, Len(s1.heap) = 0, "free: size = 0")
    IN  freed(state_free_loop(bftw_closedir(s).s))

----------------------------------------------------------------------------
\* bftw(), step by step.

\* The largest nopenfd tried.
MaxOpenFd == 4

\* In how many of its dircache_entry_open() a walk may find the process out
\* of descriptors.
MaxEmfile == 1

\* The flags tried: BFTW_RECOVER and BFTW_DEPTH at will, with one of these.
FlagSets ==
    {a \cup b : a \in SUBSET {"RECOVER", "DEPTH"},
                b \in {{}, {"STAT"}, {"XDEV"}, {"DETECT_CYCLES"},
                       {"LOGICAL", "DETECT_CYCLES"}, {"COMFOLLOW"}}}

NoGc == [entry |-> 0, invoke |-> FALSE, ret |-> "CONTINUE"]

\* bftw_state_init(): nopenfd < 2 fails with EMFILE.
bftw_call(trees, flagsets, fds, noted) ==
    /\ fs \in trees
    /\ ptr = noted
    /\ args = NoArgs
    /\ fmt = NoFormat
    /\ \E flags \in flagsets, nopenfd \in fds :
          /\ state = [bftw_state_init(flags, nopenfd - 1) EXCEPT
                         !.errno = IF nopenfd < 2 THEN EMFILE ELSE 0]
          /\ pc = IF nopenfd < 2 THEN "returned" ELSE "start"
          /\ bftw_ret = IF nopenfd < 2 THEN -1 ELSE 0
    /\ gc = NoGc
    /\ log = <<>>
    /\ emfile = 0
    /\ optlevel = 0
    /\ stack = <<>>
    /\ implicit_print = TRUE
    /\ ppc = "idle"
    /\ expr = [raw |-> expr_true, opt |-> expr_true]
    /\ last = [op |-> "none", args |-> <<>>]

\* bftw() on every tree, with every set of flags and every nopenfd; the
\* callback keeps no note of its returns.
WInit == bftw_call(Scenarios, FlagSets, 1..MaxOpenFd, FALSE)

----------------------------------------------------------------------------
\* cmdline_callback(), the callback eval_cmdline() hands to bftw().

ENOTEMPTY == 39

\* An eval_should_ignore() that does not look at the depth.
eval_should_ignore_root(cmdline, error, depth) ==
    cmdline.ignore_races /\ error = ENOENT

\* An eval_should_ignore() that ignores every error.
eval_should_ignore_always(cmdline, error, depth) == TRUE

\* eval_should_ignore(): a file that vanished below the root, with
\* -ignore_readdir_race.
eval_should_ignore(cmdline, error, depth) ==
    cmdline.ignore_races /\ error = ENOENT /\ depth > 0

\* The unlinkat() of eval_delete() on the file of a callback record rec: 0,
\* or the error of removing a directory that has entries.
unlinkat(rec) ==
    IF rec.typeflag = "DIR" /\ Children(rec.node) # <<>> THEN ENOTEMPTY ELSE 0

\* The leaves that stand for tests on stat data.
StatIds == {4, 5}

\* What the leaves return on the file of rec: test 1 is -type d, test 2 is
\* -depth +0, action 3 is -delete; on stat data, test 4 is -inum +1 and
\* test 5 is -uid 0, every file being root's.
AsgOf(rec) ==
    [i \in TestIds \cup ActionIds \cup StatIds |->
        CASE i = 1 -> rec.typeflag = "DIR"
          [] i = 2 -> rec.depth > 0
          [] i = 3 -> unlinkat(rec) = 0
          [] i = 4 -> rec.at_node # 0 /\ fs.ino[rec.at_node] > 1
          [] OTHER -> TRUE]

\* cmdline_callback() on the record rec with *ptr = a (xargs_safe off):
\* [action, ret, quit, cerr, trace, values, stats, errors], what it
\* returns, what it leaves in args->ret and args->quit, how many messages
\* cerr has got, the leaves it evaluated with what they returned, how many
\* fstatat() fill_statbuf() made and the errno of each that failed.  eval_error() is called by fill_statbuf() and when
\* eval_delete() fails.
cmdline_callback(rec, a) ==
    LET cmdline == a.cmdline
        depth == rec.depth
        done(action, failed, st) ==
            [action |-> action,
             ret |-> IF failed > 0 THEN -1 ELSE a.ret,
             quit |-> st.quit,
             cerr |-> a.cerr + failed,
             trace |-> st.trace, values |-> st.values, stats |-> st.stats,
             errors |-> st.errors]
        state0 == [eval_state0 EXCEPT
                      !.quit = a.quit,
                      !.action = IF depth >= cmdline.maxdepth
                                 THEN "SKIP_SUBTREE" ELSE "CONTINUE",
                      !.statbuf = rec.statbuf # NoStat,
                      !.fstatat = fstatat(rec.at_fd, rec.at_path,
                                          rec.at_flags = "NOFOLLOW").err]
        expected_visit ==
            IF /\ "DEPTH" \in cmdline.flags
               /\ rec.typeflag = "DIR"
               /\ depth < cmdline.maxdepth
            THEN "POST" ELSE "PRE"
        \* The errno of every eval_error(), and how many are not ignored.
        eval_errors(st) ==
            st.errors \o
            (IF /\ \E i \in 1..Len(st.trace) : st.trace[i] = <<"action", 3>>
                /\ unlinkat(rec) # 0
             THEN <<unlinkat(rec)>> ELSE <<>>)
        reported(errors) ==
            Cardinality({i \in 1..Len(errors) :
                            ~eval_should_ignore(cmdline, errors[i], depth)})
        evaluated(st) == done(st.action, reported(eval_errors(st)), st)
    IN  IF rec.typeflag = "ERROR"
        THEN done("SKIP_SUBTREE",
                  IF eval_should_ignore(cmdline, rec.error, depth)
                  THEN 0 ELSE 1,
                  state0)
        ELSE IF /\ rec.visit = expected_visit
                /\ depth >= cmdline.mindepth
                /\ depth <= cmdline.maxdepth
        THEN evaluated(eval_expr(cmdline.expr, AsgOf(rec), state0))
        ELSE done(state0.action, 0, state0)

\* The callback of the step that has just been taken: with a struct
\* callback_args it is cmdline_callback(), which says what it returns.
Callback ==
    IF args = NoArgs \/ log' = log THEN args' = args
    ELSE LET returned(rec, c) ==
                 /\ rec.ret = c.action
                 /\ args' = [args EXCEPT !.ret = c.ret, !.quit = c.quit,
                                         !.cerr = c.cerr]
         IN  returned(log'[Len(log')],
                      cmdline_callback(log'[Len(log')], args))

\* A switch that goes on after BFTW_STOP.
AfterAction_no_stop(action, continue) ==
    IF action = BFTW_FAIL THEN "fail" ELSE continue

\* Where bftw() goes on after bftw_handle_path() in its loop.
AfterAction(action, continue) ==
    CASE action = "STOP" -> "done"
      [] action = BFTW_FAIL -> "fail"
      [] OTHER -> continue

\* "Handle 'path' itself first", up to the first turn of the loop.
Start ==
    /\ pc = "start"
    /\ \E r \in Returns :
          LET added(a) ==
                  /\ state' = [a.s EXCEPT !.current = a.entry]
                  /\ pc' = IF a.entry # 0 THEN "open" ELSE "fail"
              handled(s1) ==
                  LET h == bftw_handle_path(s1, r)
                  IN  /\ log' = IF h.called
                                THEN Append(log, Invocation(s1, 1, r))
                                ELSE log
                      /\ IF /\ h.action \in {"CONTINUE", "SKIP_SIBLINGS"}
                            /\ h.s.ftwbuf.typeflag = "DIR"
                         THEN added(bftw_add(h.s, fs.root, 1))
                         ELSE /\ state' = h.s
                              /\ pc' = IF h.action = BFTW_FAIL THEN "fail"
                                       ELSE "done"
          IN  handled(bftw_init_buffers(bftw_path_concat(state, fs.root), 0))
    /\ UNCHANGED <<fs, gc, bftw_ret, emfile, ptr>>
    /\ Callback
    /\ UNCHANGED <<pvars, fmt>>

\* bftw_build_path() and bftw_opendir() of the current entry.
OpenDir ==
    /\ pc = "open"
    /\ \E full \in [1..4 -> BOOLEAN] :
          LET opened(o) ==
                  /\ o.used = Cardinality({i \in 1..4 : full[i]})
                  /\ o.used > 0 => emfile < MaxEmfile
                  /\ emfile' = IF o.used > 0 THEN emfile + 1 ELSE emfile
                  /\ state' = o.s
                  /\ pc' = IF o.s.dir # 0 THEN "read" ELSE "dir_error"
          IN  opened(bftw_opendir(bftw_build_path(state), full))
    /\ UNCHANGED <<fs, gc, bftw_ret, log, ptr, args>>
    /\ UNCHANGED <<pvars, fmt>>

\* One turn of the loop over the entries of the current directory.
ReadDir ==
    /\ pc = "read"
    /\ LET pushed(p) ==
               /\ state' = p.s
               /\ pc' = IF p.err THEN "fail" ELSE "read"
           handled(s1, de, r) ==
               LET h == bftw_handle_path(s1, r)
                   statbuf == h.s.ftwbuf.statbuf
                   push == /\ h.action = "CONTINUE"
                           /\ h.s.ftwbuf.typeflag = "DIR"
                           /\ ~ (/\ "XDEV" \in h.s.flags
                                 /\ statbuf # NoStat
                                 /\ statbuf.dev # h.s.ent[h.s.current].dev)
               IN  /\ log' = IF h.called
                             THEN Append(log, Invocation(s1, de, r))
                             ELSE log
                   /\ IF push
                      THEN pushed(bftw_push(h.s, <<fs_name[de]>>, de))
                      ELSE /\ state' = h.s
                           /\ pc' = IF h.action = "SKIP_SIBLINGS" THEN "next"
                                    ELSE AfterAction(h.action, "read")
           read(rd) ==
               IF rd.err # 0
               THEN /\ state' = [state EXCEPT !.errno = rd.err]
                    /\ pc' = "dir_error"
                    /\ log' = log
               ELSE IF rd.de = 0
               THEN /\ pc' = "next"
                    /\ UNCHANGED <<state, log>>
               ELSE \E r \in Returns :
                        handled(bftw_init_buffers(
                                    bftw_path_concat(
                                        [state EXCEPT !.dirpos = @ + 1],
                                        <<fs_name[rd.de]>>),
                                    rd.de),
                                rd.de, r)
       IN  read(xreaddir(state.dir, state.dirpos))
    /\ UNCHANGED <<fs, gc, bftw_ret, emfile, ptr>>
    /\ Callback
    /\ UNCHANGED <<pvars, fmt>>

\* Where bftw() goes on after bftw_pop().
AfterPop(s, action) ==
    AfterAction(action, IF s.current # 0 THEN "open" ELSE "done")

\* next: bftw_closedir(), and bftw_pop() up to the loop of its bftw_gc().
NextDir ==
    /\ pc = "next"
    /\ LET c == bftw_closedir(state)
           popped(s2) ==
               /\ state' = s2
               /\ pc' = AfterPop(s2, "CONTINUE")
               /\ gc' = gc
       IN  IF c.err
           THEN /\ state' = c.s
                /\ pc' = "dir_error"
                /\ gc' = gc
           ELSE IF "DEPTH" \in state.flags
           THEN /\ state' = [bftw_build_path(c.s) EXCEPT !.status = "GC"]
                /\ pc' = "gc"
                /\ gc' = [entry |-> state.current, invoke |-> TRUE,
                          ret |-> "CONTINUE"]
           ELSE popped(bftw_pop_quiet(c.s))
    /\ UNCHANGED <<fs, bftw_ret, log, emfile, ptr, args>>
    /\ UNCHANGED <<pvars, fmt>>

\* One turn of the loop of bftw_gc(), and after the last one the rest of
\* bftw_pop().
GcTurn ==
    /\ pc = "gc"
    /\ \E r \in Returns :
          LET popped(s1, ret) ==
                  /\ state' = s1
                  /\ gc' = NoGc
                  /\ pc' = AfterPop(s1, ret)
              turned(t) ==
                  /\ ~t.called => r = "CONTINUE"
                  /\ log' = IF t.called
                            THEN Append(log,
                                     bftw_gc_invocation(state, gc.entry, r))
                            ELSE log
                  /\ IF t.entry # 0
                     THEN /\ state' = t.s
                          /\ gc' = [entry |-> t.entry, invoke |-> t.invoke,
                                    ret |-> t.ret]
                          /\ pc' = "gc"
                     ELSE popped(bftw_pop_queue(t.s), t.ret)
          IN  turned(bftw_gc_turn(state, gc.entry, gc.invoke, gc.ret, r))
    /\ UNCHANGED <<fs, bftw_ret, emfile, ptr>>
    /\ Callback
    /\ UNCHANGED <<pvars, fmt>>

\* dir_error: report the directory that could not be opened, read or closed.
DirError ==
    /\ pc = "dir_error"
    /\ \E r \in Returns :
          LET failed(s2) ==
                  LET h == bftw_handle_path(s2, r)
                  IN  /\ ~h.called => r = "CONTINUE"
                      /\ log' = IF h.called
                                THEN Append(log,
                                         Invocation(s2,
                                             s2.ent[s2.current].node, r))
                                ELSE log
                      /\ state' = h.s
                      /\ pc' = AfterAction(h.action, "next")
          IN  failed(bftw_set_error(
                         bftw_init_buffers(
                             bftw_path_trim(bftw_closedir(state).s), 0),
                         state.errno))
    /\ UNCHANGED <<fs, gc, bftw_ret, emfile, ptr>>
    /\ Callback
    /\ UNCHANGED <<pvars, fmt>>

\* done: and fail: to the return of bftw().
Return ==
    /\ pc \in {"done", "fail"}
    /\ bftw_ret' = IF pc = "done" /\ state.error = 0 THEN 0 ELSE -1
    /\ LET freed(s2) == state' = [s2 EXCEPT !.errno = s2.error]
       IN  freed(bftw_state_free(
                     [state EXCEPT !.error = IF @ = 0 THEN state.errno
                                             ELSE @]))
    /\ pc' = "returned"
    /\ UNCHANGED <<fs, gc, log, emfile, ptr, args>>
    /\ UNCHANGED <<pvars, fmt>>

WNext ==
    \/ Start
    \/ OpenDir
    \/ ReadDir
    \/ NextDir
    \/ GcTurn
    \/ DirError
    \/ Return

SpecWalk == WInit /\ [][WNext]_vars

\* The same walks with a callback that notes what it returns, on fewer
\* trees: with post-order visits on the small trees, without on the others.
CInit ==
    \/ bftw_call({SmallTree, FileTree}, SUBSET {"RECOVER", "DEPTH"},
                 {MaxOpenFd}, TRUE)
    \/ bftw_call({PlainTree, ErrorTree}, SUBSET {"RECOVER"},
                 {MaxOpenFd}, TRUE)

SpecCallback == CInit /\ [][WNext]_vars

\* The same on the tree with a mount point, with and without BFTW_XDEV.
XInit ==
    bftw_call({MountTree},
              {a \cup b : a \in SUBSET {"RECOVER", "DEPTH"},
                          b \in {{}, {"XDEV"}}},
              {MaxOpenFd}, TRUE)

SpecXdev == XInit /\ [][WNext]_vars

----------------------------------------------------------------------------
\* eval_cmdline(): bftw() with cmdline_callback() on each root in turn.

\* How many roots the command line names; each names the root of fs.
NRoots == 2

INT_MAX == 2147483647

\* The expressions of the command lines tried, as the parser builds them at
\* -O0 (-O4 for -false): -print; -false; -depth +0 -quit -print;
\* -quit , -print; ! -quit -o -print; -delete , -depth +0 -quit;
\* -delete -print; -type d -prune -o -print; ( -inum +1 -o -uid 0 ) -print;
\* -uid 0 -inum +1 -print; -uid 0 , -delete.
CmdExprs ==
    LET print == new_expr("fprint", 0, FALSE)
        quit == parse_action("quit", 0)
        delete == parse_action("action", 3)
        inum == new_expr("stat", 4, TRUE)
        uid == new_expr("stat", 5, TRUE)
    IN  {and_node(or_node(inum, uid), print),
         and_node(and_node(uid, inum), print),
         comma_node(uid, delete),
         print,
         expr_false,
         and_node(and_node(parse_test(2), quit), print),
         comma_node(quit, print),
         or_node(not_node(quit), print),
         comma_node(delete, and_node(parse_test(2), quit)),
         and_node(delete, print),
         or_node(and_node(parse_test(1), parse_action("prune", 0)), print)}

\* The small tree with files that have gone since readdir() told of them or
\* that may not be looked at: stat() fails on b; stat() fails on d; a
\* cannot be opened; the root cannot be opened; stat() fails on the root.
RaceTrees ==
    {[SmallTree EXCEPT !.serr = <<0, 0, EACCES, 0, 0, 0>>],
     [SmallTree EXCEPT !.serr = <<0, 0, 0, 0, ENOENT, 0>>],
     [SmallTree EXCEPT !.oerr = <<0, ENOENT, 0, 0, 0, 0>>],
     [SmallTree EXCEPT !.oerr = <<ENOENT, 0, 0, 0, 0, 0>>],
     [SmallTree EXCEPT !.serr = <<ENOENT, 0, 0, 0, 0, 0>>]}

\* parse_cmdline()'s struct cmdline as eval_cmdline() gets it, and the
\* nopenfd that infer_fdlimit() finds: 1 when the limit is too low.
CmdInit ==
    /\ fs \in {SmallTree, ErrorTree, FileTree} \cup RaceTrees
    /\ ptr = TRUE
    /\ fmt = NoFormat
    /\ \E e \in CmdExprs, depth \in BOOLEAN, ignore \in BOOLEAN,
          limits \in {<<0, INT_MAX>>, <<1, 1>>}, nopenfd \in {1, MaxOpenFd} :
          /\ args = [cmdline |->
                        [expr |-> e,
                         optlevel |-> IF e = expr_false /\ depth THEN 4 ELSE 0,
                         flags |-> IF depth THEN {"RECOVER", "DEPTH"}
                                   ELSE {"RECOVER"},
                         mindepth |-> limits[1], maxdepth |-> limits[2],
                         ignore_races |-> ignore],
                     ret |-> 0, quit |-> FALSE, root |-> 0,
                     nopenfd |-> nopenfd, cerr |-> 0]
          /\ state = bftw_state_init({"RECOVER"}, nopenfd - 1)
    /\ pc = "cmdline"
    /\ gc = NoGc
    /\ bftw_ret = 0
    /\ log = <<>>
    /\ emfile = 0
    /\ optlevel = 0
    /\ stack = <<>>
    /\ implicit_print = TRUE
    /\ ppc = "idle"
    /\ expr = [raw |-> expr_true, opt |-> expr_true]
    /\ last = [op |-> "none", args |-> <<>>]

\* eval_cmdline() up to its first bftw(), from the return of one bftw() to
\* the next, and from the last to its own return (no -exec ... + is pending,
\* so eval_exec_finish() returns 0).  perror() writes one message.
EvalCmdline ==
    /\ args # NoArgs
    /\ pc \in {"cmdline", "returned"}
    /\ LET cmdline == args.cmdline
           nopenfd == args.nopenfd
           skipped == /\ pc = "cmdline"
                      /\ cmdline.optlevel >= 4
                      /\ cmdline.expr.eval = "false"
           walk(a) ==
               IF ~skipped /\ a.root < NRoots /\ ~a.quit
               THEN /\ args' = [a EXCEPT !.root = @ + 1]
                    /\ state' = [bftw_state_init(cmdline.flags, nopenfd - 1)
                                    EXCEPT !.errno = IF nopenfd < 2
                                                     THEN EMFILE ELSE 0]
                    /\ pc' = IF nopenfd < 2 THEN "returned" ELSE "start"
                    /\ bftw_ret' = IF nopenfd < 2 THEN -1 ELSE 0
                    /\ gc' = NoGc
               ELSE /\ args' = a
                    /\ pc' = "exit"
                    /\ UNCHANGED <<state, bftw_ret, gc>>
       IN  walk(IF pc = "returned" /\ bftw_ret # 0
                THEN [args EXCEPT !.ret = -1, !.cerr = @ + 1]
                ELSE args)
    /\ UNCHANGED <<fs, log, emfile, ptr>>
    /\ UNCHANGED <<pvars, fmt>>

CNext ==
    \/ WNext
    \/ EvalCmdline

SpecCmdline == CmdInit /\ [][CNext]_vars

\* eval_cmdline() for -print, with and without -depth, with -xdev, with
\* cycle detection (alone and with -L), and with -mindepth and -maxdepth:
\* none, -mindepth 1 -maxdepth 1, -maxdepth 1, -mindepth 1.
DepthInit ==
    /\ fs \in {SmallTree, MountTree, LinkTree, ErrorTree}
    /\ ptr = TRUE
    /\ fmt = NoFormat
    /\ \E a \in SUBSET {"DEPTH"},
          b \in {{}, {"XDEV"}, {"DETECT_CYCLES"},
                 {"LOGICAL", "DETECT_CYCLES"}},
          limits \in {<<0, INT_MAX>>, <<1, 1>>, <<0, 1>>, <<1, INT_MAX>>} :
          /\ args = [cmdline |->
                        [expr |-> new_expr("fprint", 0, FALSE),
                         optlevel |-> 0,
                         flags |-> {"RECOVER"} \cup a \cup b,
                         mindepth |-> limits[1], maxdepth |-> limits[2],
                         ignore_races |-> FALSE],
                     ret |-> 0, quit |-> FALSE, root |-> 0,
                     nopenfd |-> MaxOpenFd, cerr |-> 0]
          /\ state = bftw_state_init({"RECOVER"}, MaxOpenFd - 1)
    /\ pc = "cmdline"
    /\ gc = NoGc
    /\ bftw_ret = 0
    /\ log = <<>>
    /\ emfile = 0
    /\ optlevel = 0
    /\ stack = <<>>
    /\ implicit_print = TRUE
    /\ ppc = "idle"
    /\ expr = [raw |-> expr_true, opt |-> expr_true]
    /\ last = [op |-> "none", args |-> <<>>]

SpecDepth == DepthInit /\ [][CNext]_vars

\* The largest RLIMIT_NOFILE tried below INT_MAX, the most entries /dev/fd
\* may list, and the most files the command line may hold open.
MaxLimit == 12
MaxDevFd == 8
MaxNopenFiles == 2

\* What getrlimit(RLIMIT_NOFILE) gives: ok whether it returned 0, kind
\* whether rlim_cur is RLIM_INFINITY, a value above INT_MAX ("WIDE") or a
\* number that an int holds, and int what the conversion of rlim_cur to
\* int yields (for a wide value whatever the implementation makes of it).
Rlimits ==
    {[ok |-> FALSE, kind |-> "number", int |-> 0],
     [ok |-> TRUE, kind |-> "INFINITY", int |-> -1]}
    \cup {[ok |-> TRUE, kind |-> "number", int |-> n] :
             n \in 0..MaxLimit \cup {4096, INT_MAX}}
    \cup {[ok |-> TRUE, kind |-> "WIDE", int |-> n] :
             n \in {-INT_MAX - 1, -1, 0, 1, MaxLimit}}

\* An infer_fdlimit() that reserves no descriptor for -empty.
infer_fdlimit_no_reserve(cmdline, rl, devfd) ==
    LET ret == IF rl.ok /\ rl.kind # "INFINITY" THEN rl.int ELSE 4096
        nopen == IF devfd >= 0 THEN devfd - 1 ELSE 3 + cmdline.nopen_files
    IN  IF ret > nopen THEN ret - nopen ELSE 1

\* infer_fdlimit(): rl is what getrlimit() gives, devfd how many entries
\* but "." and ".." the readdir() loop on /dev/fd counts, -1 if /dev/fd
\* cannot be opened.
infer_fdlimit(cmdline, rl, devfd) ==
    LET ret == IF rl.ok /\ rl.kind # "INFINITY" THEN rl.int ELSE 4096
        nopen == IF devfd >= 0 THEN devfd - 1 ELSE 3 + cmdline.nopen_files
        reserved == nopen + 1
    IN  IF ret > reserved THEN ret - reserved ELSE 1

\* The tree with the limits of the process: rlimit and devfd.
WithLimits(tree, rl, devfd) ==
    [f \in DOMAIN tree \cup {"rlimit", "devfd"} |->
        CASE f = "rlimit" -> rl
          [] f = "devfd" -> devfd
          [] OTHER -> tree[f]]

\* eval_cmdline() is entered for -print on one tree, with every limit,
\* every count of /dev/fd and every number of files held open.
FdInit ==
    /\ \E rl \in Rlimits, devfd \in -1..MaxDevFd :
          fs = WithLimits(SmallTree, rl, devfd)
    /\ ptr = TRUE
    /\ fmt = NoFormat
    /\ \E nopen_files \in 0..MaxNopenFiles :
          args = [cmdline |->
                     [expr |-> new_expr("fprint", 0, FALSE),
                      optlevel |-> 0, flags |-> {"RECOVER"},
                      mindepth |-> 0, maxdepth |-> INT_MAX,
                      ignore_races |-> FALSE, nopen_files |-> nopen_files],
                  ret |-> 0, quit |-> FALSE, root |-> 0,
                  nopenfd |-> 0, cerr |-> 0]
    /\ state = bftw_state_init({"RECOVER"}, 0)
    /\ pc = "infer"
    /\ gc = NoGc
    /\ bftw_ret = 0
    /\ log = <<>>
    /\ emfile = 0
    /\ optlevel = 0
    /\ stack = <<>>
    /\ implicit_print = TRUE
    /\ ppc = "idle"
    /\ expr = [raw |-> expr_true, opt |-> expr_true]
    /\ last = [op |-> "none", args |-> <<>>]

\* eval_cmdline() from its entry to int nopenfd = infer_fdlimit(cmdline).
InferFdlimit ==
    /\ pc = "infer"
    /\ IF args.cmdline.optlevel >= 4 /\ args.cmdline.expr.eval = "false"
       THEN pc' = "exit" /\ args' = args
       ELSE /\ pc' = "cmdline"
            /\ args' = [args EXCEPT
                           !.nopenfd = infer_fdlimit(args.cmdline, fs.rlimit,
                                                     fs.devfd)]
    /\ UNCHANGED <<fs, state, gc, bftw_ret, log, emfile, ptr>>
    /\ UNCHANGED <<pvars, fmt>>

FdNext ==
    \/ InferFdlimit
    \/ EvalCmdline

SpecFdlimit == FdInit /\ [][FdNext]_vars

----------------------------------------------------------------------------
\* parse_bfs_printf() and bfs_printf() (printf.c) on formats of literal
\* characters and backslash escapes.  A format is a sequence of characters;
\* the strings of the directives and the output are sequences of bytes.

\* The longest format.
MaxFormat == 5

\* The characters of the formats.
FormatChars == {"\\", "0", "1", "4", "7", "x"}

Formats == UNION {[1..n -> FormatChars] : n \in 0..MaxFormat}

\* The value of an octal digit, -1 for any other character.
OctalDigit(c) ==
    CASE c = "0" -> 0 [] c = "1" -> 1 [] c = "2" -> 2 [] c = "3" -> 3
      [] c = "4" -> 4 [] c = "5" -> 5 [] c = "6" -> 6 [] c = "7" -> 7
      [] OTHER -> -1

\* The byte of a character.
Byte(c) ==
    CASE c = "\\" -> 92
      [] c = "x" -> 120
      [] c = "%" -> 37
      [] c = "i" -> 105
      [] c = "n" -> 110
      [] c = "p" -> 112
      [] c = "s" -> 115
      [] c = "r" -> 114
      [] OTHER -> 48 + OctalDigit(c)

\* The character at position i of the format; "" stands for the NUL at its
\* end.
CharAt(format, i) == IF i <= Len(format) THEN format[i] ELSE ""

\* dstrncat(&str, &c, 1): as memcpy() does (verbatim), or as strncat() does,
\* for which a NUL is the end of the source.
dstrncat(str, c, verbatim) ==
    IF c = 0 /\ ~verbatim THEN str ELSE Append(str, c)

\* fprintf(file, "%s", str): the bytes before the first NUL.
RECURSIVE fprintf_s(_)
fprintf_s(str) ==
    IF str = <<>> \/ Head(str) = 0 THEN <<>>
    ELSE <<Head(str)>> \o fprintf_s(Tail(str))

\* append_literal(): the literal becomes a directive unless it is empty;
\* [directives, literal].
append_literal(directives, literal) ==
    IF Len(literal) = 0
    THEN [directives |-> directives, literal |-> literal]
    ELSE [directives |->
              Append(directives, [fn |-> "literal", str |-> literal]),
          literal |-> <<>>]

\* The loop of the octal escape from position i on: [c, i], the char c it
\* computes and the position after the last digit it took.
RECURSIVE octal_loop(_, _, _, _)
octal_loop(format, i, j, c) ==
    IF j < 3 /\ OctalDigit(CharAt(format, i)) >= 0
    THEN octal_loop(format, i + 1, j + 1,
                    (c * 8 + OctalDigit(CharAt(format, i))) % 256)
    ELSE [c |-> c, i |-> i]

\* The flags of a directive, from position i on: [err, str, numeric, i], i
\* the position of the first character that is no flag.
RECURSIVE flags_loop(_, _, _, _)
flags_loop(format, i, str, numeric) ==
    LET c == CharAt(format, i)
    IN  IF c \in {"#", "0", "+", " ", "-"}
        THEN IF \E k \in 1..Len(str) : str[k] = Byte(c)
             THEN [err |-> TRUE, str |-> str, numeric |-> numeric, i |-> i]
             ELSE flags_loop(format, i + 1, Append(str, Byte(c)),
                             numeric \/ c \in {"#", "0", "+"})
        ELSE [err |-> FALSE, str |-> str, numeric |-> numeric, i |-> i]

\* A specifier switch that takes %n for a directive that needs no stat().
needs_stat_but_n(c) ==
    c \in {"a", "b", "c", "D", "F", "g", "G", "i", "k", "m", "M", "s",
           "S", "t", "u", "U", "A", "C", "T"}

\* The specifiers for which the switch sets command->needs_stat.
needs_stat(c) ==
    c \in {"a", "b", "c", "D", "F", "g", "G", "i", "k", "m", "M", "n", "s",
           "S", "t", "u", "U", "A", "C", "T"}

\* The bfs_printf_*() functions that read ftwbuf->statbuf, by specifier.
reads_statbuf(fn) ==
    fn \in {"a", "b", "c", "D", "F", "g", "G", "i", "k", "m", "M", "n", "s",
            "S", "t", "u", "U", "A", "C", "T"}

\* A directive from the '%' at position i on, for the specifiers %i, %n and
\* %p and no width or precision: [err, directive, needs_stat, i], i the
\* position of the specifier.
parse_directive(format, i) ==
    LET f == flags_loop(format, i + 1, <<Byte("%")>>, FALSE)
        c == CharAt(format, f.i)
        failed == [err |-> TRUE, directive |-> <<>>, needs_stat |-> FALSE,
                   i |-> f.i]
    IN  IF f.err \/ ~(c \in {"i", "n", "p"}) \/ f.numeric THEN failed
        ELSE [err |-> FALSE,
              directive |-> [fn |-> c, str |-> Append(f.str, Byte("s"))],
              needs_stat |-> needs_stat(c), i |-> f.i]

\* What the stat buffer and the record of the printed file hold: the inode,
\* the link count and the path r, as printf() writes them.
FileFields == [i |-> <<50>>, n |-> <<49>>, p |-> <<114>>]

\* The loop of bfs_printf() over the directives with the evaluation state
\* st: [out, null], what is written and whether a directive has read
\* through a NULL ftwbuf->statbuf (after which what it writes is anything).
RECURSIVE bfs_printf(_, _)
bfs_printf(directives, st) ==
    LET d == Head(directives)
        rest == bfs_printf(Tail(directives), st)
        written == IF d.fn = "literal" THEN fprintf_s(d.str)
                   ELSE IF d.fn = "flush" THEN <<>>
                   ELSE FileFields[d.fn]
    IN  IF directives = <<>> THEN [out |-> <<>>, null |-> FALSE]
        ELSE [out |-> written \o rest.out,
              null |-> rest.null \/ (reads_statbuf(d.fn) /\ ~st.statbuf)]

FInit ==
    /\ \E format \in Formats, verbatim \in BOOLEAN :
          fmt = [NoFormat EXCEPT !.format = format, !.i = 1, !.pc = "parse",
                                 !.verbatim = verbatim]
    /\ optlevel = 0
    /\ stack = <<>>
    /\ implicit_print = TRUE
    /\ ppc = "idle"
    /\ expr = [raw |-> expr_true, opt |-> expr_true]
    /\ last = [op |-> "none", args |-> <<>>]
    /\ fs = <<>>
    /\ state = <<>>
    /\ pc = "idle"
    /\ gc = <<>>
    /\ bftw_ret = 0
    /\ log = <<>>
    /\ emfile = 0
    /\ ptr = FALSE
    /\ args = NoArgs

\* One turn of the loop of parse_bfs_printf() over the format, and after the
\* last one what follows done:.
ParseBfsPrintf ==
    /\ fmt.pc = "parse"
    /\ LET format == fmt.format
           i == fmt.i
           c == CharAt(format, i)
           one_char(byte, next) ==
               fmt' = [fmt EXCEPT
                          !.literal = dstrncat(@, byte, fmt.verbatim),
                          !.i = next]
           octal(o) == one_char(o.c, o.i)
           done(a) ==
               fmt' = [fmt EXCEPT !.directives = a.directives,
                                  !.literal = a.literal,
                                  !.pc = "parsed"]
           flushed(a) ==
               fmt' = [fmt EXCEPT
                          !.directives =
                              Append(a.directives, [fn |-> "flush"]),
                          !.literal = a.literal,
                          !.pc = "parsed"]
           escape(e) ==
               IF OctalDigit(e) >= 0
               THEN octal(octal_loop(format, i + 1, 0, 0))
               ELSE CASE e = "a" -> one_char(7, i + 2)
                      [] e = "b" -> one_char(8, i + 2)
                      [] e = "f" -> one_char(12, i + 2)
                      [] e = "n" -> one_char(10, i + 2)
                      [] e = "r" -> one_char(13, i + 2)
                      [] e = "t" -> one_char(9, i + 2)
                      [] e = "v" -> one_char(11, i + 2)
                      [] e = "\\" -> one_char(Byte(e), i + 2)
                      [] e = "c" ->
                            flushed(append_literal(fmt.directives,
                                                   fmt.literal))
                      [] OTHER -> fmt' = [fmt EXCEPT !.pc = "error"]
           directive(a, d) ==
               IF d.err THEN fmt' = [fmt EXCEPT !.pc = "error"]
               ELSE fmt' = [fmt EXCEPT
                               !.directives = Append(a.directives,
                                                     d.directive),
                               !.literal = a.literal,
                               !.needs_stat = @ \/ d.needs_stat,
                               !.i = d.i + 1]
       IN  IF c = "" THEN done(append_literal(fmt.directives, fmt.literal))
           ELSE IF c = "\\" THEN escape(CharAt(format, i + 1))
           ELSE IF c = "%" /\ CharAt(format, i + 1) = "%"
           THEN one_char(Byte("%"), i + 2)
           ELSE IF c = "%"
           THEN directive(append_literal(fmt.directives, fmt.literal),
                          parse_directive(format, i))
           ELSE one_char(Byte(c), i + 1)
    /\ UNCHANGED <<pvars, fs, state, pc, gc, bftw_ret, log, emfile, ptr, args>>

\* bfs_printf(): every directive in turn, bfs_printf_literal() with
\* fprintf(file, "%s", directive->str) and bfs_printf_flush().
BfsPrintf ==
    /\ fmt.pc = "parsed"
    /\ LET p == bfs_printf(fmt.directives, fmt.st)
       IN  fmt' = [fmt EXCEPT !.out = p.out, !.null = p.null,
                              !.pc = "printed"]
    /\ UNCHANGED <<pvars, fs, state, pc, gc, bftw_ret, log, emfile, ptr, args>>

FNext ==
    \/ ParseBfsPrintf
    \/ BfsPrintf

SpecPrintf == FInit /\ [][FNext]_vars

\* The characters of the formats with directives.
DirectiveChars == {"%", "i", "n", "p", "\\", "0"}

\* eval_fprintf() of an expression with each format of directives, on a file
\* whose stat buffer is set, or is not and stat() succeeds or fails.
EInit ==
    /\ \E n \in 0..MaxFormat, verbatim \in BOOLEAN :
          \E format \in [1..n -> DirectiveChars] :
              \E st \in {[eval_state0 EXCEPT !.statbuf = TRUE],
                         eval_state0,
                         [eval_state0 EXCEPT !.fstatat = EACCES]} :
                  fmt = [NoFormat EXCEPT !.format = format, !.i = 1,
                                         !.pc = "parse", !.st = st,
                                         !.verbatim = verbatim]
    /\ optlevel = 0
    /\ stack = <<>>
    /\ implicit_print = TRUE
    /\ ppc = "idle"
    /\ expr = [raw |-> expr_true, opt |-> expr_true]
    /\ last = [op |-> "none", args |-> <<>>]
    /\ fs = <<>>
    /\ state = <<>>
    /\ pc = "idle"
    /\ gc = <<>>
    /\ bftw_ret = 0
    /\ log = <<>>
    /\ emfile = 0
    /\ ptr = FALSE
    /\ args = NoArgs

\* eval_fprintf(): fill_statbuf() if the format needs it, then
\* bfs_printf() unless that failed.
EvalFprintf ==
    /\ fmt.pc = "parsed"
    /\ LET st == IF fmt.needs_stat THEN fill_statbuf(fmt.st) ELSE fmt.st
           p == bfs_printf(fmt.directives, st)
       IN  IF fmt.needs_stat /\ ~st.statbuf
           THEN fmt' = [fmt EXCEPT !.st = st, !.pc = "printed"]
           ELSE fmt' = [fmt EXCEPT !.st = st, !.out = p.out,
                                   !.null = p.null, !.pc = "printed"]
    /\ UNCHANGED <<pvars, fs, state, pc, gc, bftw_ret, log, emfile, ptr, args>>

ENext ==
    \/ ParseBfsPrintf
    \/ EvalFprintf

SpecFprintf == EInit /\ [][ENext]_vars

----------------------------------------------------------------------------
\* The dirqueue on its own: pushes and pops in any order.  state.queue is the
\* queue, state.pushed the entries pushed so far, state.returned what the
\* calls of dirqueue_pop() returned so far (0 for NULL).

\* How many entries are pushed at most.
MaxPush == 6

QInit ==
    /\ state = [queue |-> dirqueue_init, pushed |-> <<>>, returned |-> <<>>]
    /\ pc = "queue"
    /\ fmt = NoFormat
    /\ optlevel = 0
    /\ stack = <<>>
    /\ implicit_print = TRUE
    /\ ppc = "idle"
    /\ expr = [raw |-> expr_true, opt |-> expr_true]
    /\ last = [op |-> "none", args |-> <<>>]
    /\ fs = <<>>
    /\ gc = <<>>
    /\ bftw_ret = 0
    /\ log = <<>>
    /\ emfile = 0
    /\ ptr = FALSE
    /\ args = NoArgs

\* dirqueue_push() of an entry that is not in the queue.
DirqueuePush ==
    /\ pc = "queue"
    /\ Len(state.pushed) < MaxPush
    /\ LET entry == Len(state.pushed) + 1
       IN  state' = [state EXCEPT
                        !.queue = dirqueue_push(@, entry),
                        !.pushed = Append(@, entry)]
    /\ UNCHANGED <<pvars, fs, pc, gc, bftw_ret, log, emfile, ptr, args, fmt>>

\* dirqueue_pop(), of an empty queue too.
DirqueuePop ==
    /\ pc = "queue"
    /\ Len(state.returned) < MaxPush + 2
    /\ LET p == dirqueue_pop(state.queue)
       IN  state' = [state EXCEPT !.queue = p.queue,
                                  !.returned = Append(@, p.entry)]
    /\ UNCHANGED <<pvars, fs, pc, gc, bftw_ret, log, emfile, ptr, args, fmt>>

QNext ==
    \/ DirqueuePush
    \/ DirqueuePop

\* The queue on its own, and the queue of every walk.
FrontierInit ==
    \/ QInit
    \/ WInit

FrontierNext ==
    \/ QNext
    \/ WNext

SpecQueue == FrontierInit /\ [][FrontierNext]_vars

----------------------------------------------------------------------------
\* Properties of the walk.

\* Node n is strictly below node d in the tree.
RECURSIVE Below(_, _)
Below(n, d) ==
    IF n = 0 \/ fs_parent[n] = 0 THEN FALSE
    ELSE fs_parent[n] = d \/ Below(fs_parent[n], d)

Invoked == 1..Len(log)

\* C1: of two callback invocations in the pre-order phase, the one of the
\* lesser depth comes first.
C1_ShallowerFirst ==
    \A i, j \in Invoked :
        (log[i].visit = "PRE" /\ log[j].visit = "PRE"
         /\ log[i].depth < log[j].depth) => i < j

\* C1, amended: of two callback invocations in the pre-order phase, the one
\* of the lesser depth comes first unless it reports an error.
C1_ShallowerFirstUnlessError ==
    \A i, j \in Invoked :
        (log[i].visit = "PRE" /\ log[j].visit = "PRE"
         /\ log[i].typeflag # "ERROR"
         /\ log[i].depth < log[j].depth) => i < j

\* A walk has reported entries of three depths, and a directory's error
\* after entries below its depth.
C1_Witness ==
    /\ \E i, j, k \in Invoked :
          /\ log[i].visit = "PRE" /\ log[i].depth = 0
          /\ log[j].visit = "PRE" /\ log[j].depth = 1
          /\ log[k].visit = "PRE" /\ log[k].depth = 2
          /\ log[i].typeflag # "ERROR" /\ log[j].typeflag # "ERROR"
    /\ \E i, j \in Invoked :
          /\ i < j
          /\ log[j].visit = "PRE" /\ log[j].typeflag = "ERROR"
          /\ log[j].depth < log[i].depth

\* C2: a post-order callback of a directory comes after every callback of
\* every entry below the directory.
C2_PostOrderLast ==
    \A i, j \in Invoked :
        (log[i].visit = "POST" /\ Below(log[j].node, log[i].node)) => j < i

\* A directory is reported in post-order after pre-order, error and
\* post-order callbacks of entries below it.
C2_Witness ==
    \E i, j, k, l \in Invoked :
        /\ log[i].visit = "POST"
        /\ Below(log[j].node, log[i].node) /\ log[j].visit = "POST"
        /\ Below(log[k].node, log[i].node) /\ log[k].typeflag = "ERROR"
        /\ Below(log[l].node, log[i].node) /\ log[l].visit = "PRE"
        /\ log[l].typeflag # "ERROR"

\* C5: the heap of the cache never holds more entries than the capacity.
C5_SizeWithinCapacity == pc # "idle" => Len(state.heap) <= state.capacity

\* C6: a record that has a stat result has the type of that result's mode.
C6_TypeFromStat ==
    \A i \in Invoked :
        log[i].statbuf # NoStat
            => log[i].typeflag = mode_to_typeflag(log[i].statbuf.mode)

\* C6, amended: a record that has a stat result and reports no error has
\* the type of that result's mode.
C6_TypeFromStatUnlessError ==
    \A i \in Invoked :
        (log[i].statbuf # NoStat /\ log[i].typeflag # "ERROR")
            => log[i].typeflag = mode_to_typeflag(log[i].statbuf.mode)

\* Records with a stat result: one whose entry type readdir() did not tell,
\* one of a symbolic link that was followed, and one that reports an error.
C6_Witness ==
    /\ \E i \in Invoked :
          /\ log[i].statbuf # NoStat /\ log[i].typeflag = "REG"
          /\ ~fs.dtype[log[i].node]
    /\ \E i \in Invoked :
          log[i].statbuf # NoStat /\ log[i].typeflag = "ERROR"

\* C7: in a record that reports no error, at_path relative to at_fd names
\* the file that path names.
C7_AtPathIsPath ==
    \A i \in Invoked :
        log[i].typeflag # "ERROR"
            => log[i].at_node # 0 /\ log[i].at_node = log[i].path_node

\* Node n is a directory entry that is the directory of one of its ancestors.
IsLoop(n) ==
    /\ fs_parent[n] # 0
    /\ IsDirNode(n)
    /\ \E d \in Nodes :
          /\ Below(n, d)
          /\ fs.dev[Followed(n)] = fs.dev[Followed(d)]
          /\ fs.ino[Followed(n)] = fs.ino[Followed(d)]

\* C8: with cycle detection, a directory entry that is one of its ancestors
\* is reported as an ELOOP error and never enqueued.
C8_LoopIsError ==
    "DETECT_CYCLES" \in state.flags =>
        /\ \A i \in Invoked :
              (IsLoop(log[i].node) /\ log[i].depth > 0
               /\ (fs.kind[log[i].node] = "lnk" => "LOGICAL" \in state.flags))
                  => log[i].typeflag = "ERROR" /\ log[i].error = ELOOP
        /\ \A e \in Entries :
              (state.ent[e].live
               /\ (fs.kind[state.ent[e].node] = "lnk"
                      => "LOGICAL" \in state.flags))
                  => ~IsLoop(state.ent[e].node)

\* With cycle detection, a walk reported a loop and went on to report
\* another entry.
C8_Witness ==
    /\ pc # "idle"
    /\ "DETECT_CYCLES" \in state.flags
    /\ \E i, j \in Invoked :
          /\ i < j
          /\ IsLoop(log[i].node) /\ log[i].depth > 0
          /\ log[i].typeflag = "ERROR" /\ log[i].error = ELOOP

----------------------------------------------------------------------------
\* Properties of walks whose callback notes what it returns.

\* The invocations for node n in the given phase; an error-typed record is
\* of neither phase.
Visits(n, visit) ==
    {i \in Invoked : /\ log[i].node = n /\ log[i].typeflag # "ERROR"
                     /\ log[i].visit = visit}

\* The callback let the directory n be put on the queue.
Enqueued(n) ==
    \E i \in Visits(n, "PRE") :
        /\ log[i].typeflag = "DIR"
        /\ \/ log[i].ret = "CONTINUE"
           \/ log[i].depth = 0 /\ log[i].ret = "SKIP_SIBLINGS"

\* The walk has returned, and neither was stopped nor failed.
Completed ==
    /\ pc = "returned" /\ bftw_ret = 0
    /\ \A i \in Invoked : log[i].ret # "STOP"

\* C11: a directory that is being expanded has had exactly one pre-order
\* callback; when a walk has ended that was not stopped and did not fail,
\* every directory that was put on the queue has had exactly one pre-order
\* callback and, with BFTW_DEPTH, exactly one post-order callback, and an
\* entry that was not put on the queue has had no post-order callback.
C11_OncePerDirectory ==
    /\ (pc \in {"open", "read", "next", "dir_error"} /\ state.current # 0)
           => Cardinality(Visits(state.ent[state.current].node, "PRE")) = 1
    /\ Completed =>
           \A n \in Nodes :
               /\ Cardinality(Visits(n, "PRE")) <= 1
               /\ Cardinality(Visits(n, "POST")) =
                      IF Enqueued(n) /\ "DEPTH" \in state.flags THEN 1 ELSE 0

\* C12: when the root is not a directory, the callback is invoked exactly
\* once, for the root at depth 0 in the pre-order phase, with and without
\* BFTW_DEPTH: there is never a second invocation, and none in post-order
\* (bftw_state_init() failing with EMFILE, there is no walk).
C12_FileRootOnce ==
    (pc # "idle" /\ fs.kind[1] # "dir") =>
        /\ \A i \in Invoked :
               /\ i = 1 /\ log[i].node = 1 /\ log[i].depth = 0
               /\ log[i].visit = "PRE"
        /\ (/\ pc # "start"
            /\ ~ (pc = "returned" /\ log = <<>> /\ state.errno = EMFILE))
               => Len(log) = 1

\* A walk with BFTW_DEPTH of a regular file has returned with success after
\* one callback.
C12_Witness ==
    /\ fs.kind[1] = "reg" /\ "DEPTH" \in state.flags
    /\ pc = "returned" /\ bftw_ret = 0
    /\ Len(log) = 1 /\ log[1].typeflag = "REG"

\* Invocation i of the log l is the callback for an entry as the walk comes upon it: for
\* the root, or for a name that readdir() gave; not the error callback of a
\* directory that was being expanded, and not a post-order callback.
Found(l, i) ==
    /\ l[i].visit = "PRE"
    /\ ~ (/\ l[i].typeflag = "ERROR"
          /\ \E j \in 1..(i - 1) : l[j].node = l[i].node)

\* The step is a callback that returns BFTW_SKIP_SUBTREE for an entry the
\* walk has come upon: no entry is created and nothing is put on the queue;
\* for a name in a directory the loop reads on in the same directory, for
\* the root the walk is done.
SkipSubtreeStep ==
    (/\ Len(log') = Len(log) + 1
     /\ log'[Len(log')].ret = "SKIP_SUBTREE" /\ Found(log', Len(log')))
        => /\ state'.queue = state.queue /\ state'.ent = state.ent
           /\ state'.dir = state.dir
           /\ pc' = IF pc = "start" THEN "done" ELSE "read"
           /\ pc = "read" => state'.dirpos = state.dirpos + 1

InQueue(e) ==
    \E k \in 0..(state.queue.size - 1) :
        state.queue.entries[((state.queue.head + k) % state.queue.capacity)
                            + 1] = e

\* The callback has just returned BFTW_SKIP_SIBLINGS for a name read in the
\* directory being expanded.
SkippedSiblings ==
    /\ pc = "next" /\ log # <<>>
    /\ log[Len(log)].ret = "SKIP_SIBLINGS" /\ log[Len(log)].depth > 0
    /\ Found(log, Len(log))

\* The step is a callback that returns BFTW_SKIP_SIBLINGS for a name read:
\* the directory is read no further, and the queue is left as it is.
SkipSiblingsStep ==
    (/\ pc = "read" /\ Len(log') = Len(log) + 1
     /\ log'[Len(log')].ret = "SKIP_SIBLINGS")
        => /\ pc' = "next"
           /\ state'.queue = state.queue /\ state'.current = state.current

\* The walk has been stopped or has failed.
Aborted ==
    \/ pc = "fail"
    \/ pc = "done" /\ log # <<>> /\ log[Len(log)].ret = "STOP"

\* An entry leaves the queue only to be the directory that is expanded next,
\* unless bftw() returns.
QueueStep ==
    \A e \in Entries :
        (InQueue(e) /\ ~InQueue(e)')
            => \/ pc' = "open" /\ state'.current = e
               \/ pc' = "returned"

\* C14: when the callback returns BFTW_SKIP_SIBLINGS for a child of the
\* directory being expanded, the directory is read no further, so that no
\* later child of it gets a callback from that expansion; every directory
\* then on the queue, children of that directory put there before included,
\* is expanded later on unless the walk is stopped or fails: it leaves the
\* queue only to be expanded, and the loop ends only with an empty queue.
C14_SkipSiblings ==
    /\ [][SkipSiblingsStep]_vars
    /\ [](SkippedSiblings =>
            \A j \in Invoked :
                fs_parent[log[j].node] = fs_parent[log[Len(log)].node]
                    => j <= Len(log))
    /\ [][QueueStep]_vars
    /\ []((pc = "done" /\ ~Aborted) => state.queue.size = 0)

\* The walk has returned with success: a was put on the queue, the callback
\* then returned BFTW_SKIP_SIBLINGS for its sibling b, and a was expanded
\* all the same, its child d had its callback.
C14_Witness ==
    /\ fs = SmallTree /\ pc = "returned" /\ bftw_ret = 0
    /\ \A i \in Invoked : log[i].ret # "STOP"
    /\ \E i, j, k \in Invoked :
          /\ i < j /\ j < k
          /\ log[i].node = 2 /\ log[i].ret = "CONTINUE"
          /\ log[j].node = 3 /\ log[j].ret = "SKIP_SIBLINGS"
          /\ log[k].node = 5 /\ log[k].visit = "PRE"

\* C15: once the callback has returned BFTW_STOP, from a pre-order, an error
\* or a post-order visit, it is not invoked again in that walk: bftw() only
\* frees what it holds and returns, and it returns 0, as no error has been
\* recorded in state->error by then.
C15_StopEndsWalk ==
    \A i \in Invoked :
        log[i].ret = "STOP" =>
            /\ i = Len(log)
            /\ pc \in {"gc", "done", "returned"}
            /\ pc # "returned" => state.error = 0
            /\ pc = "returned" => bftw_ret = 0

\* bftw() has returned 0 after the callback returned BFTW_STOP from the
\* post-order visit of a, before the root had its own.
C15_Witness ==
    /\ pc = "returned" /\ bftw_ret = 0 /\ fs = SmallTree
    /\ Len(log) > 3
    /\ log[Len(log)].ret = "STOP" /\ log[Len(log)].visit = "POST"
    /\ log[Len(log)].node = 2
    /\ Visits(1, "POST") = {}

\* bftw() has returned 0 after the callback returned BFTW_STOP from the
\* error callback of a directory.
C15_WitnessError ==
    /\ pc = "returned" /\ bftw_ret = 0
    /\ log # <<>>
    /\ log[Len(log)].ret = "STOP" /\ log[Len(log)].typeflag = "ERROR"

\* C16: once the callback has returned a value that is no bftw_action, it is
\* not invoked again: state->error is EINVAL, bftw() only frees what it
\* holds and returns -1 with errno = EINVAL.
C16_InvalidReturnFails ==
    \A i \in Invoked :
        log[i].ret = "INVALID" =>
            /\ i = Len(log)
            /\ pc \in {"gc", "fail", "returned"}
            /\ state.error = EINVAL
            /\ pc = "returned" => (bftw_ret = -1 /\ state.errno = EINVAL)

\* bftw() has returned -1 with EINVAL after an invalid return from the
\* post-order visit of a, other callbacks having gone before.
C16_Witness ==
    /\ pc = "returned" /\ bftw_ret = -1 /\ state.errno = EINVAL
    /\ Len(log) > 3
    /\ log[Len(log)].ret = "INVALID" /\ log[Len(log)].visit = "POST"
    /\ Visits(1, "POST") = {}

----------------------------------------------------------------------------
\* Errors of the walk.

\* The error codes the system gives for node n: of stat(), of opening it
\* (EMFILE when the process had no descriptor left), of reading it or
\* closing it, and of finding it among its own ancestors.
ErrorsOf(n) ==
    {fs.serr[n], fs.oerr[n]}
        \cup (IF emfile > 0 THEN {EMFILE} ELSE {})
        \cup (IF fs.rerr[n] >= 0 \/ fs.cerr[n] THEN {EIO} ELSE {})
        \cup (IF IsLoop(n) THEN {ELOOP} ELSE {})

\* C17: without BFTW_RECOVER the callback never gets a record of type error,
\* and the first path error ends the walk: bftw() goes to fail with that
\* error's code in state->error, and returns -1 with errno set to it.
C17_FirstErrorFails ==
    (pc # "idle" /\ "RECOVER" \notin state.flags) =>
        /\ \A i \in Invoked : log[i].typeflag # "ERROR"
        /\ state.ftwbuf.typeflag = "ERROR" =>
               /\ pc \in {"fail", "returned"}
               /\ state.ftwbuf.error # 0
               /\ state.ftwbuf.error
                      \in ErrorsOf(ResolveAt(AT_FDCWD, state.ftwbuf.path))
               /\ state.error = state.ftwbuf.error
               /\ pc = "returned" =>
                      (bftw_ret = -1 /\ state.errno = state.ftwbuf.error)

\* Without BFTW_RECOVER bftw() has returned -1 with EACCES after callbacks
\* for r, a and b: a could not be opened.
C17_Witness ==
    /\ fs = OpenErrorTree /\ "RECOVER" \notin state.flags
    /\ pc = "returned" /\ bftw_ret = -1 /\ state.errno = EACCES
    /\ Len(log) = 3 /\ state.ftwbuf.typeflag = "ERROR"
    /\ state.ftwbuf.path = <<"r", "/", "a">>

\* The same for readdir() failing in the root, for stat() failing on d and
\* for a loop found.
C17_WitnessOthers ==
    /\ "RECOVER" \notin state.flags
    /\ pc = "returned" /\ bftw_ret = -1 /\ state.ftwbuf.typeflag = "ERROR"
    /\ \/ fs = ReadErrorTree /\ state.errno = EIO
       \/ fs = ErrorTree /\ state.errno = EACCES
       \/ fs = MountTree /\ state.errno = ELOOP

\* The error callbacks for node n.
ErrorVisits(n) ==
    {i \in Invoked : log[i].node = n /\ log[i].typeflag = "ERROR"}

\* The step is the error callback of dir_error with BFTW_RECOVER: one
\* record, of type error, for the directory being expanded, with the code
\* of the failure; unless the callback stops the walk or returns no action,
\* bftw() goes on to next, the queue as it was.
DirErrorStep ==
    (pc = "dir_error" /\ "RECOVER" \in state.flags) =>
        /\ Len(log') = Len(log) + 1
        /\ log'[Len(log')].typeflag = "ERROR"
        /\ log'[Len(log')].node = state.ent[state.current].node
        /\ log'[Len(log')].error = state.errno
        /\ log'[Len(log')].error \in ErrorsOf(state.ent[state.current].node)
        /\ state'.queue = state.queue
        /\ pc' = CASE log'[Len(log')].ret = "STOP" -> "done"
                   [] log'[Len(log')].ret = "INVALID" -> "fail"
                   [] OTHER -> "next"

\* C18: with BFTW_RECOVER, a directory that cannot be opened, read or
\* closed has exactly one error callback, for that directory and with the
\* code of the failure, and the walk goes on with the directories on the
\* queue: no directory has a second error callback, and in a walk that was
\* not stopped a directory put on the queue that cannot be opened or closed
\* has had its one.
C18_OneErrorCallback ==
    /\ [][DirErrorStep]_vars
    /\ []((pc # "idle" /\ "RECOVER" \in state.flags) =>
            \A n \in Nodes :
                fs.kind[n] = "dir" =>
                    /\ Cardinality(ErrorVisits(n)) <= 1
                    /\ (Completed /\ Enqueued(n) /\ emfile = 0
                        /\ (fs.oerr[n] # 0 \/ fs.cerr[n]))
                           => \E i \in ErrorVisits(n) :
                                  log[i].error \in {fs.oerr[n], EIO})
    /\ [][QueueStep]_vars

\* A walk with BFTW_RECOVER has returned with success after one error
\* callback for each of a (closedir() failed), b (readdir() failed) and c
\* (which could not be opened).
C18_Witness ==
    /\ fs = ErrorTree /\ "RECOVER" \in state.flags
    /\ pc = "returned" /\ bftw_ret = 0
    /\ \A n \in {2, 3, 4} : Cardinality(ErrorVisits(n)) = 1
    /\ \E i \in ErrorVisits(4) : log[i].error = EACCES
    /\ \E i \in ErrorVisits(3), j \in ErrorVisits(4) :
          i < j /\ log[i].error = EIO

----------------------------------------------------------------------------
\* Properties of eval_cmdline().

\* The leaves cmdline_callback() evaluated in the i-th callback of l, in
\* order.
Evaluated(l, i) ==
    cmdline_callback(l[i], [args EXCEPT !.quit = FALSE]).trace

\* A step taken once *state->quit is set.
QuitStep ==
    args.quit =>
        /\ log' = log
        /\ args'.root = args.root
        /\ args'.quit
        /\ pc' \in {"gc", "done", "returned", "exit"}

\* C19: once -quit has been evaluated for a file, it is the last leaf
\* evaluated for that file, the callback returns BFTW_STOP, that callback is
\* the last one of the whole run, the quit flag is set, and from then on
\* bftw() only unwinds and returns and eval_cmdline() starts no other root.
C19_QuitTakesEffect ==
    /\ [](\A i \in 1..Len(log) :
             (\E k \in 1..Len(Evaluated(log, i)) :
                 Evaluated(log, i)[k] = <<"quit", 0>>)
             => /\ Evaluated(log, i)[Len(Evaluated(log, i))] = <<"quit", 0>>
                /\ Cardinality({k \in 1..Len(Evaluated(log, i)) :
                                   Evaluated(log, i)[k] = <<"quit", 0>>}) = 1
                /\ log[i].ret = "STOP"
                /\ i = Len(log)
                /\ args.quit
                /\ pc \in {"gc", "done", "returned", "exit"})
    /\ [][QuitStep]_vars

\* -depth +0 -quit -print on the small tree: -quit is evaluated for the
\* second file, -print is not, and eval_cmdline() returns after the first of
\* its two roots.
C19_Witness ==
    /\ pc = "exit"
    /\ fs = SmallTree
    /\ args.quit
    /\ args.root = 1
    /\ args.cmdline.expr.eval = "and"
    /\ Len(log) = 2
    /\ Evaluated(log, 2) = <<(<<"test", 2>>), (<<"quit", 0>>)>>

\* The errors the i-th callback of l met: the one it was made for, the one
\* of -delete on a directory that has entries, the one of stat() for a test
\* on stat data when bftw() had not got them.
ErrnosOf(l, i) ==
    (IF l[i].typeflag = "ERROR" THEN {l[i].error} ELSE {})
    \cup {ENOTEMPTY : k \in {k \in 1..Len(Evaluated(l, i)) :
                                /\ Evaluated(l, i)[k] = <<"action", 3>>
                                /\ l[i].typeflag = "DIR"
                                /\ Children(l[i].node) # <<>>}}
    \cup {fstatat(l[i].at_fd, l[i].at_path, l[i].at_flags = "NOFOLLOW").err :
             k \in {k \in 1..Len(Evaluated(l, i)) :
                       /\ Evaluated(l, i)[k][1] = "stat"
                       /\ l[i].statbuf = NoStat
                       /\ fstatat(l[i].at_fd, l[i].at_path,
                                  l[i].at_flags = "NOFOLLOW").err # 0}}

\* The i-th callback recorded an error: it met one that is not the ENOENT
\* of a file below the root with -ignore_readdir_race.
Recorded(l, i) ==
    \E e \in ErrnosOf(l, i) :
        ~(args.cmdline.ignore_races /\ e = ENOENT /\ l[i].depth > 0)

\* A step that changes args.ret or writes a message: it sets args.ret to -1
\* and writes a message, and it is a callback that records an error or the
\* return of a bftw() that failed.
RecordStep ==
    (args' # args /\ (args'.ret # args.ret \/ args'.cerr # args.cerr)) =>
        /\ args'.ret = -1
        /\ args'.cerr > args.cerr
        /\ \/ /\ Len(log') = Len(log) + 1
              /\ Recorded(log', Len(log'))
           \/ /\ pc = "returned"
              /\ bftw_ret # 0
              /\ log' = log

\* C20: args.ret, which eval_cmdline() returns, is 0 exactly when no error
\* was reported; it is -1 once a callback was made for an error, or met one
\* in -delete or in stat(), that is not ignored, and once a bftw() returned
\* non-zero; it changes only to -1 and only in such a step;
\* a run that -quit ended walked one bftw() that returned 0, and returns 0
\* exactly when no callback up to the stop recorded an error.
C20_ZeroIffNoError ==
    /\ [](args # NoArgs =>
             /\ args.ret \in {0, -1}
             /\ args.ret = 0 <=> args.cerr = 0
             /\ \A i \in 1..Len(log) : Recorded(log, i) => args.ret = -1
             /\ (pc = "exit" /\ bftw_ret # 0) => args.ret = -1
             /\ (pc \in {"returned", "exit"} /\ args.quit) =>
                   /\ bftw_ret = 0
                   /\ pc = "exit" =>
                         (args.ret = 0 <=>
                             \A i \in 1..Len(log) : ~Recorded(log, i)))
    /\ [][RecordStep]_vars

\* Two roots walked on the tree with errors and -print: eval_cmdline()
\* returns -1 after callbacks for errors in both walks, each bftw() having
\* returned 0.
C20_Witness ==
    /\ pc = "exit"
    /\ fs = ErrorTree
    /\ args.root = NRoots
    /\ args.cmdline.expr.eval = "fprint"
    /\ bftw_ret = 0
    /\ args.ret = -1
    /\ args.cerr > 2
    /\ \E i \in 1..Len(log) : log[i].typeflag = "ERROR"

\* Two roots walked without any error: eval_cmdline() returns 0.
C20_WitnessZero ==
    /\ pc = "exit"
    /\ fs = SmallTree
    /\ args.root = NRoots
    /\ ~args.quit
    /\ Len(log) > 10
    /\ args.ret = 0

\* Runs that -quit ended: with -delete having failed before the stop, and
\* without an error.
C20_WitnessQuitError ==
    /\ pc = "exit"
    /\ args.quit
    /\ args.ret = -1
    /\ Evaluated(log, 1) = <<(<<"action", 3>>), (<<"test", 2>>)>>

C20_WitnessQuitZero ==
    /\ pc = "exit"
    /\ args.quit
    /\ args.ret = 0
    /\ Len(log) > 1

\* A bftw() that failed: eval_cmdline() returns -1 without any callback.
C20_WitnessBftwFailed ==
    /\ pc = "exit"
    /\ log = <<>>
    /\ args.root = NRoots
    /\ args.ret = -1
    /\ args.cerr = NRoots

----------------------------------------------------------------------------
\* The implicit -print.

\* Whether a leaf of e is an action other than -prune.
RECURSIVE HasOutputAction(_)
HasOutputAction(e) ==
    IF Len(e.kids) = 0 THEN ClearsImplicitPrint(e)
    ELSE \E i \in 1..Len(e.kids) : HasOutputAction(e.kids[i])

\* How often evaluating e under asg evaluates -print.
Prints(e, asg) ==
    Len(SelectSeq(Evaluate(e, asg).trace, LAMBDA x : x[1] = "fprint"))

\* The expression of the command line as the parser built it at -O0, before
\* parse_whole_expr().
UserExpr == IF stack = <<>> THEN expr_true ELSE Top(stack).raw

\* C21: once the command line is parsed, the implicit -print is in force
\* exactly when no action other than -prune was parsed; then the final tree,
\* at every optimization level, evaluates -print exactly once on a file on
\* which the user's expression is true and never on any other; otherwise the
\* final tree holds no -print at all.
C21_ImplicitPrint ==
    ppc = "done" =>
        /\ implicit_print <=> ~HasOutputAction(UserExpr)
        /\ \A asg \in Assignments :
              Prints(expr.opt, asg) =
                 IF implicit_print /\ Evaluate(UserExpr, asg).ret THEN 1
                 ELSE 0

\* -prune -o TEST parsed at -O2 or above: the implicit -print is added to
\* an expression that holds an action, and the optimizer changed the tree.
C21_Witness ==
    /\ ppc = "done"
    /\ implicit_print
    /\ optlevel >= 2
    /\ UserExpr.eval = "or"
    /\ Lhs(UserExpr).eval = "prune"
    /\ Rhs(UserExpr).eval = "test"
    /\ expr.opt.eval = "and"

\* An action was parsed: no -print is added.
C21_WitnessExplicit ==
    /\ ppc = "done"
    /\ ~implicit_print
    /\ UserExpr.eval = "and"
    /\ Rhs(UserExpr).eval = "action"
    /\ expr.opt = UserExpr

----------------------------------------------------------------------------
\* stat() during the evaluation of one file.

\* What cmdline_callback() did in the i-th callback.
Evaluation(i) == cmdline_callback(log[i], [args EXCEPT !.quit = FALSE])

\* C22: in every callback, fill_statbuf() reports at most one failure of
\* stat(); once stat() has failed every test on stat data returns false; and
\* when stat() succeeds it is called at most once.
C22_StatOnce ==
    \A i \in 1..Len(log) :
        /\ Len(Evaluation(i).errors) <= 1
        /\ \A k \in 1..Len(Evaluation(i).trace) :
              (Evaluation(i).trace[k][1] = "stat"
               /\ Evaluation(i).errors # <<>>)
              => ~Evaluation(i).values[k]
        /\ Evaluation(i).errors = <<>> => Evaluation(i).stats <= 1

\* What holds of it: a failed stat() makes every test on stat data return
\* false and is reported by each of them; a stat() that succeeds is made at
\* most once; nothing is made when bftw() has got the data.
C22_StatPerTest ==
    \A i \in 1..Len(log) :
        /\ \A k \in 1..Len(Evaluation(i).trace) :
              (Evaluation(i).trace[k][1] = "stat"
               /\ Evaluation(i).errors # <<>>)
              => ~Evaluation(i).values[k]
        /\ Evaluation(i).errors = <<>> => Evaluation(i).stats <= 1
        /\ Evaluation(i).errors # <<>> =>
              Len(Evaluation(i).errors) = Evaluation(i).stats
        /\ log[i].statbuf # NoStat => Evaluation(i).stats = 0

\* ( -inum +1 -o -uid 0 ) -print on b, of which stat() fails: both tests
\* are evaluated, both call stat(), and -print is not reached.
C22_Witness ==
    \E i \in 1..Len(log) :
        /\ log[i].path = <<"r", "/", "b">>
        /\ Evaluation(i).trace = <<(<<"stat", 4>>), (<<"stat", 5>>)>>
        /\ Evaluation(i).errors = <<EACCES, EACCES>>
        /\ Evaluation(i).values = <<FALSE, FALSE>>

----------------------------------------------------------------------------
\* -ignore_readdir_race.

\* A callback, seen from eval_cmdline(): when every error it met is the
\* ENOENT of a file below the root and -ignore_readdir_race is set, it
\* leaves args.ret alone and writes nothing; when it met any other error, it
\* sets args.ret to -1 and writes a message.
IgnoreStep ==
    Len(log') = Len(log) + 1 =>
        LET n == Len(log')
            ignored(e) == /\ args.cmdline.ignore_races
                          /\ e = ENOENT
                          /\ log'[n].depth > 0
        IN  IF \A e \in ErrnosOf(log', n) : ignored(e)
            THEN args'.ret = args.ret /\ args'.cerr = args.cerr
            ELSE args'.ret = -1 /\ args'.cerr > args.cerr

\* C23: with -ignore_readdir_race an ENOENT below the root, in the record
\* bftw() passes or in a step of the evaluation, writes no message and leaves
\* the return code as it is; an ENOENT at the root, any other error, and any
\* error without the option set the return code to -1.
C23_IgnoreRaces == [][args # NoArgs => IgnoreStep]_vars

\* Both roots walked with -ignore_readdir_race, the directory a having gone
\* before it could be opened: its error record is passed over.
C23_Witness ==
    /\ pc = "exit"
    /\ args.cmdline.ignore_races
    /\ args.root = NRoots
    /\ \E i \in 1..Len(log) :
          /\ log[i].typeflag = "ERROR"
          /\ log[i].error = ENOENT
          /\ log[i].depth = 1
    /\ args.ret = 0
    /\ args.cerr = 0

\* The same for stat() in a test, d having gone.
C23_WitnessStat ==
    /\ pc = "exit"
    /\ args.cmdline.ignore_races
    /\ \E i \in 1..Len(log) :
          /\ log[i].typeflag # "ERROR"
          /\ ErrnosOf(log, i) = {ENOENT}
          /\ log[i].depth = 2
    /\ args.ret = 0

\* The root having gone, the option does not help.
C23_WitnessRoot ==
    /\ pc = "exit"
    /\ args.cmdline.ignore_races
    /\ Len(log) = NRoots
    /\ log[1].depth = 0
    /\ log[1].error = ENOENT
    /\ args.ret = -1

\* Without the option the file that has gone is an error.
C23_WitnessOff ==
    /\ pc = "exit"
    /\ ~args.cmdline.ignore_races
    /\ \E i \in 1..Len(log) : ErrnosOf(log, i) = {ENOENT} /\ log[i].depth > 0
    /\ args.ret = -1

----------------------------------------------------------------------------
\* Symbolic links that lead nowhere.

\* C24: the record of a symbolic link whose target does not exist has the
\* type of a link and no error, whether the link is the root or an entry of
\* a directory, and whether links are followed at its depth (BFTW_LOGICAL,
\* or BFTW_COMFOLLOW for the root) or not.
C24_BrokenLink ==
    pc # "idle" =>
        \A i \in 1..Len(log) :
            (/\ fs.kind[log[i].node] = "lnk"
             /\ fs.target[log[i].node] = 0
             /\ fs.serr[log[i].node] = 0)
            => log[i].typeflag = "LNK" /\ log[i].error = 0

\* The broken link e, three levels down, with links followed: stat() was
\* tried again without following.
C24_Witness ==
    /\ pc = "returned"
    /\ fs = LinkTree
    /\ "LOGICAL" \in state.flags
    /\ \E i \in 1..Len(log) :
          /\ log[i].node = 6
          /\ log[i].depth = 3
          /\ log[i].typeflag = "LNK"
          /\ log[i].at_flags = "NOFOLLOW"
          /\ log[i].statbuf # NoStat

\* A root that is a broken link, with BFTW_COMFOLLOW and without following.
C24_WitnessRoot ==
    /\ pc = "returned"
    /\ fs = BrokenRootTree
    /\ "COMFOLLOW" \in state.flags
    /\ Len(log) = 1
    /\ log[1].typeflag = "LNK"
    /\ log[1].statbuf.mode = "lnk"

C24_WitnessNoFollow ==
    /\ pc = "returned"
    /\ fs = BrokenRootTree
    /\ state.flags = {}
    /\ Len(log) = 1
    /\ log[1].typeflag = "LNK"

----------------------------------------------------------------------------
\* BFTW_XDEV.

\* The directory n is on another device than the directory it is in.
MountPoint(n) ==
    /\ fs_parent[n] # 0
    /\ fs.kind[n] = "dir"
    /\ fs.dev[n] # fs.dev[fs_parent[n]]

\* The loop of bftw() handling a directory for which the callback returned
\* BFTW_CONTINUE: with BFTW_XDEV a directory on another device than the one
\* being read leaves the cache and the queue as they are; any other
\* directory gets an entry, which is put on the queue.
XdevStep ==
    (/\ pc = "read" /\ Len(log') = Len(log) + 1
     /\ log'[Len(log')].typeflag = "DIR"
     /\ log'[Len(log')].ret = "CONTINUE")
        => IF "XDEV" \in state.flags /\ MountPoint(log'[Len(log')].node)
           THEN /\ state'.queue = state.queue
                /\ state'.ent = state.ent
                /\ pc' = "read"
           ELSE \/ pc' = "fail"
                \/ \E e \in Entries :
                      /\ ~state.ent[e].live
                      /\ state'.ent[e].live
                      /\ state'.ent[e].node = log'[Len(log')].node
                      /\ state'.ent[e].parent = state.current
                      /\ state'.queue.size = state.queue.size + 1
                      /\ InQueue(e)'

\* C25: with BFTW_XDEV no directory on another device than its parent ever
\* has a cache entry, and no record is ever made for a file beneath such a
\* directory, while the directory itself is passed to the callback like any
\* other entry; directories on the device of their parent are enqueued when
\* the callback returns BFTW_CONTINUE.
C25_Xdev ==
    /\ []("XDEV" \in state.flags =>
             /\ \A e \in Entries :
                   state.ent[e].live => ~MountPoint(state.ent[e].node)
             /\ \A i \in 1..Len(log), n \in Nodes :
                   MountPoint(n) => ~Below(log[i].node, n))
    /\ [][XdevStep]_vars

\* A whole walk with BFTW_XDEV: the mount point a was passed to the callback
\* with its stat data, the callback returned BFTW_CONTINUE, d beneath it was
\* never seen, and c and e on the device of the root were.
C25_Witness ==
    /\ pc = "returned"
    /\ bftw_ret = 0
    /\ "XDEV" \in state.flags
    /\ \E i \in 1..Len(log) :
          /\ log[i].node = 2
          /\ log[i].typeflag = "DIR"
          /\ log[i].statbuf.dev = 2
          /\ log[i].ret = "CONTINUE"
    /\ \A i \in 1..Len(log) : log[i].node # 5
    /\ \E i \in 1..Len(log) : log[i].node = 6

\* Without BFTW_XDEV the walk goes on beneath the mount point.
C25_WitnessOff ==
    /\ pc = "returned"
    /\ "XDEV" \notin state.flags
    /\ \E i \in 1..Len(log) : log[i].node = 5


----------------------------------------------------------------------------
\* Octal escapes in a format.

\* The bytes a format stands for: each character for itself, \\ for one
\* backslash, and a backslash with one to three octal digits for the one
\* byte of that value modulo 256.
RECURSIVE Denoted(_)
Denoted(format) ==
    LET digits(n) ==
            \A k \in 2..(n + 1) :
                k <= Len(format) /\ OctalDigit(format[k]) >= 0
        taken == IF digits(3) THEN 3 ELSE IF digits(2) THEN 2 ELSE 1
        RECURSIVE value(_)
        value(k) ==
            IF k = 1 THEN 0 ELSE value(k - 1) * 8 + OctalDigit(format[k])
        rest(n) == Denoted(SubSeq(format, n + 1, Len(format)))
    IN  IF format = <<>> THEN <<>>
        ELSE IF Head(format) # "\\" THEN <<Byte(Head(format))>> \o rest(1)
        ELSE IF Len(format) >= 2 /\ format[2] = "\\" THEN <<92>> \o rest(2)
        ELSE <<value(taken + 1) % 256>> \o rest(taken + 1)

\* C26: for every one-to-three-digit octal escape in a format, the output
\* holds at that position exactly one byte of that value modulo 256, the
\* value 0 included, and the text after the escape is still output: what
\* bfs_printf() writes is what the format stands for.
C26_OctalEscape == fmt.pc = "printed" => fmt.out = Denoted(fmt.format)

\* The same for the formats whose escapes all have a value other than 0
\* modulo 256.
C26_NonZeroOctal ==
    fmt.pc = "printed" /\ (\A k \in DOMAIN Denoted(fmt.format) :
                               Denoted(fmt.format)[k] # 0)
        => fmt.out = Denoted(fmt.format)

\* An escape of one, of two and of three digits is printed as one byte, and
\* the text after it follows.
C26_Witness ==
    /\ fmt.pc = "printed"
    /\ fmt.format \in {<<"x", "\\", "1", "x">>, <<"\\", "4", "1", "x">>,
                       <<"\\", "1", "0", "1", "x">>}
    /\ fmt.out = Denoted(fmt.format)

\* \0 and \400 are printed as no byte at all.
C26_WitnessZero ==
    /\ fmt.pc = "printed"
    /\ fmt.format \in {<<"x", "\\", "0", "x">>, <<"\\", "4", "0", "0", "x">>}
    /\ ~(0 \in {fmt.out[k] : k \in DOMAIN fmt.out})


----------------------------------------------------------------------------
\* The order of the heap of open entries.

\* The slot of the code's heap[i] holds an entry that may be the parent, in
\* the heap, of the one in the slot of heap[j].
HeapOrderAt(i, j) ==
    dircache_heap_check(state.ent[state.heap[i + 1]],
                        state.ent[state.heap[j + 1]])

\* C27: after every cache operation every slot of the heap and its two
\* children are in order (depth descending, then refcount ascending), so
\* heap[0] is the deepest open entry with the fewest references.
C27_HeapOrdered ==
    pc # "idle" =>
        /\ \A i \in 0..(Len(state.heap) - 1) :
              \A j \in {2 * i + 1, 2 * i + 2} :
                  j < Len(state.heap) => HeapOrderAt(i, j)
        /\ \A j \in 1..(Len(state.heap) - 1) : HeapOrderAt(0, j)

\* A directory one level down is open, entries were added below it, and the
\* heap has its shallower parent on top.
C27_WitnessBroken ==
    /\ pc # "idle"
    /\ Len(state.heap) >= 2
    /\ state.ent[state.heap[1]].depth < state.ent[state.heap[2]].depth
    /\ state.asserts = {}
    /\ state.ub = {}


----------------------------------------------------------------------------
\* The reference counts.

\* Whether the live entry a is on the parent chain of the entry f.
RECURSIVE OnParentChain(_, _)
OnParentChain(a, f) ==
    /\ state.ent[f].parent # 0
    /\ \/ state.ent[f].parent = a
       \/ OnParentChain(a, state.ent[f].parent)

LiveEntries == {e \in Entries : state.ent[e].live}

LiveDescendants(e) == {f \in LiveEntries : OnParentChain(e, f)}

LiveChildren(e) == {f \in LiveEntries : state.ent[f].parent = e}

\* The entry is in the queue or is the directory being expanded.
Referenced(e) == InQueue(e) \/ state.current = e

Count(b) == IF b THEN 1 ELSE 0

\* C28: between the steps of the walk the refcount of every live entry is the
\* number of its live descendants, the live entries that have it on their
\* parent chain, plus one while the entry is queued or being expanded.
C28_RefcountDescendants ==
    pc # "idle" =>
        \A e \in LiveEntries :
            state.ent[e].refcount
                = Cardinality(LiveDescendants(e)) + Count(Referenced(e))

\* The same with the live entries whose parent the entry is, and with one
\* more while bftw_gc() is about to release a reference to the entry.
C28_RefcountChildren ==
    pc # "idle" =>
        \A e \in LiveEntries :
            state.ent[e].refcount
                = Cardinality(LiveChildren(e))
                  + Count(Referenced(e) \/ gc.entry = e)

\* An entry that is no longer queued nor expanded is kept by its one live
\* child, and has a live grandchild; another is queued and has no child.
C28_Witness ==
    /\ pc # "idle"
    /\ \E e \in LiveEntries :
          /\ ~Referenced(e)
          /\ gc.entry # e
          /\ state.ent[e].refcount = 1
          /\ Cardinality(LiveChildren(e)) = 1
          /\ Cardinality(LiveDescendants(e)) = 2
    /\ \E e \in LiveEntries :
          /\ InQueue(e)
          /\ state.ent[e].refcount = 1
          /\ LiveChildren(e) = {}


----------------------------------------------------------------------------
\* The heap and the open descriptors.

\* The entries in the slots of the heap.
InHeap == {state.heap[k] : k \in 1..Len(state.heap)}

\* heap_index < size and heap[heap_index] is the entry.
AtHeapIndex(e) ==
    /\ state.ent[e].heap_index < Len(state.heap)
    /\ state.heap[state.ent[e].heap_index + 1] = e

\* C29: an entry has an open fd if and only if the heap holds it at its
\* heap_index, and the heap holds no closed entry, no freed entry and no
\* entry twice.  An entry that was never opened has no heap_index yet; it is
\* in no slot at all.  The slots are those of the array that was allocated
\* for the heap.
C29_OpenIffInHeap ==
    pc # "idle" =>
        /\ Len(state.heap) <= state.slots
        /\ \A e \in LiveEntries :
              /\ state.ent[e].fd >= 0 => AtHeapIndex(e)
              /\ state.ent[e].fd < 0 => ~(e \in InHeap)
        /\ \A k \in 1..Len(state.heap) :
              /\ state.heap[k] \in LiveEntries
              /\ state.ent[state.heap[k]].fd >= 0
              /\ \A j \in 1..Len(state.heap) :
                    state.heap[j] = state.heap[k] => j = k

\* Three entries are open and in the heap, one was closed and is still
\* live, and the last entry of the heap has moved into the slot of one that
\* was popped.
C29_Witness ==
    /\ pc # "idle"
    /\ Len(state.heap) >= 2
    /\ \E e \in LiveEntries : state.ent[e].fd < 0 /\ state.ent[e].dev # -1
    /\ \E e \in LiveEntries \ InHeap :
          /\ state.ent[e].heap_index < Len(state.heap)
          /\ state.ent[state.heap[state.ent[e].heap_index + 1]].fd >= 0


----------------------------------------------------------------------------
\* The order of the queue.

\* How many of the values that dirqueue_pop() returned are entries.
Popped(returned) == Len(SelectSeq(returned, LAMBDA e : e # 0))

\* A step that is a dirqueue_pop() returns the entry pushed first among those
\* not returned yet, and NULL if there is none.
PopStep ==
    Len(state'.returned) > Len(state.returned)
        => state'.returned[Len(state'.returned)]
               = IF Popped(state.returned) < Len(state.pushed)
                 THEN state.pushed[Popped(state.returned) + 1]
                 ELSE 0

\* The entries in the queue q.
QueueEntries(q) ==
    {q.entries[((q.head + k) % q.capacity) + 1] : k \in 0..(q.size - 1)}

\* The pre-order callbacks in the log l for the node n.
PreOrder(l, n) ==
    {i \in 1..Len(l) : /\ l[i].node = n /\ l[i].visit = "PRE"
                       /\ l[i].typeflag # "ERROR"}

\* A step of the walk that takes one entry from the queue to expand it takes
\* the one whose pre-order callback came before those of all that stay.
ExpandStep ==
    (state'.queue.size = state.queue.size - 1 /\ state'.current # 0)
        => LET node(e) == state'.ent[e].node
           IN  /\ PreOrder(log', node(state'.current)) # {}
               /\ \A f \in QueueEntries(state'.queue) :
                     \A i \in PreOrder(log', node(state'.current)),
                        j \in PreOrder(log', node(f)) : i < j

\* C30: whatever the order of the pushes and pops, dirqueue_pop() returns the
\* entries in the order they were pushed, and NULL from an empty queue, also
\* after a push has doubled a full buffer whose head is not at index 0; hence
\* the walk expands the directories in the order of their pre-order
\* callbacks.
C30_FirstInFirstOut ==
    [][IF pc = "queue" THEN PopStep ELSE pc # "idle" => ExpandStep]_vars

\* The buffer of two was full with its head at index 1 when the fourth entry
\* was pushed and it was doubled; all four entries and then NULL have been
\* returned.
C30_Witness ==
    /\ pc = "queue"
    /\ state.queue.capacity = 4
    /\ state.queue.entries = <<3, 2, 3, 4>>
    /\ state.returned = <<1, 2, 3, 4, 0>>


\* In a walk the second of two queued directories is still in the queue
\* while the first, whose callback came first, is being expanded.
C30_WitnessWalk ==
    /\ pc \notin {"queue", "idle"}
    /\ state.current # 0
    /\ state.queue.size = 1
    /\ state.queue.head = 1
    /\ \A f \in QueueEntries(state.queue) :
          \A i \in PreOrder(log, state.ent[state.current].node),
             j \in PreOrder(log, state.ent[f].node) : i < j
    /\ \E f \in QueueEntries(state.queue) :
          PreOrder(log, state.ent[f].node) # {}


----------------------------------------------------------------------------
\* The retry after EMFILE.

\* The cache when dircache_entry_open() of the current entry makes its first
\* openat(): the path is built and there is room for one more descriptor.
AtOpenat ==
    LET s0 == bftw_build_path(state)
    IN  IF Len(s0.heap) = s0.capacity THEN dircache_pop(s0, s0.heap[1])
        ELSE s0

\* The cache when it calls dup_cloexec(): no call has failed, the descriptor
\* is pushed.
AtDup == bftw_opendir(bftw_build_path(state), [i \in 1..4 |-> FALSE]).s

\* The entries of the heap of s that are open.
OpenIn(s) == {s.heap[k] : k \in 1..Len(s.heap)}

\* dircache_should_retry() in the cache s after a call failed with error,
\* save being the pinned entry: with EMFILE and two entries in the heap it
\* closes one entry, other than save, and tells to retry; otherwise it
\* changes nothing and tells not to.
RetryEvictsOne(s, error, save) ==
    LET before == [s EXCEPT !.errno = error]
        r == dircache_should_retry(before, save)
    IN  IF error = EMFILE /\ Len(s.heap) >= 2
        THEN /\ r.retry
             /\ Len(r.s.heap) = Len(s.heap) - 1
             /\ \E e \in OpenIn(s) \ {save} :
                   /\ OpenIn(r.s) = OpenIn(s) \ {e}
                   /\ r.s.ent[e].fd < 0
                   /\ \A f \in Entries \ {e} : r.s.ent[f].fd = s.ent[f].fd
        ELSE ~r.retry /\ r.s = before

\* The capacity after the eviction is one less than before.
RetryShrinksByOne(s, save) ==
    LET r == dircache_should_retry([s EXCEPT !.errno = EMFILE], save)
    IN  Len(s.heap) >= 2 => r.s.capacity = s.capacity - 1

\* The errors a call may fail with.
OpenErrors == {EMFILE, EACCES, ENOENT, ENOTDIR}

\* C31: when the openat() or the dup of dircache_entry_open() fails with
\* EMFILE while two cached descriptors are open, one cached entry is closed
\* and the call is retried; with fewer, or on another error, nothing is
\* closed and the call is not retried.
C31_RetryEvictsOne ==
    pc = "open" =>
        /\ \A error \in OpenErrors :
              RetryEvictsOne(AtOpenat, error,
                             dircache_entry_base(AtOpenat, state.current))
        /\ state.ent[state.current].fd < 0 /\ AtDup.dir # 0
              => \A error \in OpenErrors :
                    RetryEvictsOne(AtDup, error, state.current)

\* C31: ... and the capacity becomes exactly one less than before.
C31_EmfileRetry ==
    pc = "open" =>
        /\ C31_RetryEvictsOne
        /\ RetryShrinksByOne(AtOpenat,
                             dircache_entry_base(AtOpenat, state.current))
        /\ state.ent[state.current].fd < 0 /\ AtDup.dir # 0
              => RetryShrinksByOne(AtDup, state.current)

\* Two descriptors are cached when a directory is about to be opened.
C31_Witness ==
    /\ pc = "open"
    /\ Len(AtOpenat.heap) >= 2
    /\ AtOpenat.capacity > Len(AtOpenat.heap)


----------------------------------------------------------------------------
\* The pinned entry of a retry.

\* After dircache_should_retry() in the cache s, the entry save is still
\* open on the descriptor it had, and in the heap.
StaysOpen(s, save) ==
    LET r == dircache_should_retry([s EXCEPT !.errno = EMFILE], save)
    IN  r.retry /\ save # 0
            => /\ s.ent[save].fd >= 0
               /\ r.s.ent[save].fd = s.ent[save].fd
               /\ save \in OpenIn(r.s)

\* C32: the eviction after EMFILE never closes the pinned entry, which is
\* the ancestor whose fd the retried openat() is relative to, or the entry
\* whose fd is duplicated: the retried call works on an open descriptor.
C32_PinnedStaysOpen ==
    pc = "open" =>
        /\ StaysOpen(AtOpenat, dircache_entry_base(AtOpenat, state.current))
        /\ state.ent[state.current].fd < 0 /\ AtDup.dir # 0
              => StaysOpen(AtDup, state.current)

\* The ancestor the openat() is relative to is in heap[0], where the entry
\* to close is looked for first, and another entry is open.
C32_Witness ==
    /\ pc = "open"
    /\ Len(AtOpenat.heap) >= 2
    /\ AtOpenat.heap[1] = dircache_entry_base(AtOpenat, state.current)
    /\ dircache_should_retry([AtOpenat EXCEPT !.errno = EMFILE],
                             AtOpenat.heap[1]).retry

\* The entry whose fd is duplicated is in heap[0].
C32_WitnessDup ==
    /\ pc = "open"
    /\ state.ent[state.current].fd < 0
    /\ AtDup.dir # 0
    /\ Len(AtDup.heap) >= 2
    /\ AtDup.heap[1] = state.current


\* A walk in which an open was retried after EMFILE and succeeded: the
\* capacity has shrunk, the directory is open, and so is its parent.
C32_WitnessRetried ==
    /\ pc = "read"
    /\ emfile = 1
    /\ state.capacity = 1
    /\ state.dir # 0
    /\ state.ent[state.current].fd >= 0
    /\ state.ent[state.current].parent # 0
    /\ state.ent[state.ent[state.current].parent].fd >= 0


----------------------------------------------------------------------------
\* always_true and always_false.

\* The node e and all the nodes below it.
RECURSIVE Subnodes(_)
Subnodes(e) ==
    {e} \cup UNION {Subnodes(e.kids[k]) : k \in 1..Len(e.kids)}

\* The trees the parser holds: its operands and the whole expression, each
\* as built at level 0 and at the chosen level.
Built ==
    UNION {{stack[k].raw, stack[k].opt} : k \in 1..Len(stack)}
    \cup {expr.raw, expr.opt}

\* The flags of an operator node are those that boolean algebra derives from
\* the flags of its operands.
FlagsDerived(e) ==
    CASE e.eval = "not" ->
            /\ e.always_true = Rhs(e).always_false
            /\ e.always_false = Rhs(e).always_true
      [] e.eval = "and" ->
            /\ e.always_true = (Lhs(e).always_true /\ Rhs(e).always_true)
            /\ e.always_false = (Lhs(e).always_false \/ Rhs(e).always_false)
      [] e.eval = "or" ->
            /\ e.always_true = (Lhs(e).always_true \/ Rhs(e).always_true)
            /\ e.always_false = (Lhs(e).always_false /\ Rhs(e).always_false)
      [] e.eval = "comma" ->
            /\ e.always_true = Rhs(e).always_true
            /\ e.always_false = Rhs(e).always_false
      [] OTHER -> TRUE

\* C33: a node flagged always_true evaluates to true and a node flagged
\* always_false to false on every file, unless the evaluation sets the quit
\* flag, at every level; the flags of the operator nodes are derived from
\* those of their operands by boolean algebra.
C33_AlwaysFlags ==
    \A tree \in Built : \A e \in Subnodes(tree) :
        /\ FlagsDerived(e)
        /\ \A asg \in Assignments :
              LET r == Evaluate(e, asg)
              IN  ~r.quit => /\ e.always_true => r.ret
                             /\ e.always_false => ~r.ret

\* The parser holds an "and" that is always false because of its right
\* operand, whose left operand is a test, and an "or" that is always true.
C33_Witness ==
    /\ \E tree \in Built : \E e \in Subnodes(tree) :
          /\ e.eval = "and" /\ e.always_false
          /\ Lhs(e).eval = "test" /\ Rhs(e).always_false
    /\ \E tree \in Built : \E e \in Subnodes(tree) :
          e.eval = "or" /\ e.always_true /\ ~Lhs(e).always_true


----------------------------------------------------------------------------
\* needs_stat.

\* The compiled format has a directive that reads the stat buffer.
ReadsStat ==
    \E k \in 1..Len(fmt.directives) : reads_statbuf(fmt.directives[k].fn)

\* C34: a compiled format has needs_stat set if and only if one of its
\* directives reads stat data; no directive reads the stat buffer while it
\* is absent; and when the stat() of eval_fprintf() fails nothing is
\* printed.
C34_NeedsStat ==
    fmt.pc \in {"parsed", "printed"} =>
        /\ fmt.needs_stat <=> ReadsStat
        /\ ~fmt.null
        /\ fmt.pc = "printed" /\ fmt.needs_stat /\ ~fmt.st.statbuf
              => fmt.out = <<>> /\ fmt.st.errors = <<EACCES>>

\* '%p %n': eval_fprintf() has made the stat() the format needs and has
\* printed the path and the link count.
C34_Witness ==
    /\ fmt.pc = "printed"
    /\ fmt.format = <<"%", "p", "%", "n">>
    /\ fmt.needs_stat
    /\ fmt.st.stats = 1 /\ fmt.st.statbuf
    /\ fmt.out = <<114, 49>>

\* '%p%i' on a file whose stat() fails: nothing is printed.
C34_WitnessFailed ==
    /\ fmt.pc = "printed"
    /\ fmt.format = <<"%", "p", "%", "i">>
    /\ ~fmt.st.statbuf
    /\ fmt.out = <<>>

\* '%p' alone is printed without any stat().
C34_WitnessNoStat ==
    /\ fmt.pc = "printed"
    /\ fmt.format = <<"%", "p">>
    /\ ~fmt.needs_stat /\ ~fmt.st.statbuf /\ fmt.st.stats = 0
    /\ fmt.out = <<114>>


----------------------------------------------------------------------------
\* Which records the expression is evaluated on.

\* The callbacks of l for the file at node n that are not error records,
\* and those of them in which the expression was evaluated.
VisitsOf(l, n) ==
    {i \in 1..Len(l) : l[i].node = n /\ l[i].typeflag # "ERROR"}

EvaluatedOn(l, n) == {i \in VisitsOf(l, n) : Evaluated(l, i) # <<>>}

InDepthRange(rec) ==
    /\ rec.depth >= args.cmdline.mindepth
    /\ rec.depth <= args.cmdline.maxdepth

\* The first walk of eval_cmdline() has returned 0.
FirstWalkDone == pc = "returned" /\ bftw_ret = 0 /\ args.root = 1

\* C35: in a completed walk the expression is evaluated exactly once on
\* every non-error entry whose depth lies in [mindepth, maxdepth], in
\* pre-order and in post-order mode, with BFTW_XDEV and BFTW_DETECT_CYCLES
\* too; with -depth a directory shallower than maxdepth is evaluated on its
\* post-order visit only.
C35_EvaluatedOnce ==
    FirstWalkDone =>
        \A i \in 1..Len(log) :
            /\ (log[i].typeflag # "ERROR" /\ InDepthRange(log[i]))
                  => Cardinality(EvaluatedOn(log, log[i].node)) = 1
            /\ (/\ Evaluated(log, i) # <<>>
                /\ "DEPTH" \in args.cmdline.flags
                /\ log[i].typeflag = "DIR"
                /\ log[i].depth < args.cmdline.maxdepth)
                  => log[i].visit = "POST"

\* The same but for the directories that BFTW_XDEV keeps off the queue and
\* in the walks in which every dircache_entry_open() found a descriptor.
C35_EvaluatedOnceButMounts ==
    (FirstWalkDone /\ emfile = 0) =>
        \A i \in 1..Len(log) :
            /\ (/\ log[i].typeflag # "ERROR"
                /\ InDepthRange(log[i])
                /\ ~("XDEV" \in args.cmdline.flags /\ MountPoint(log[i].node)))
                  => Cardinality(EvaluatedOn(log, log[i].node)) = 1
            /\ (/\ Evaluated(log, i) # <<>>
                /\ "DEPTH" \in args.cmdline.flags
                /\ log[i].typeflag = "DIR"
                /\ log[i].depth < args.cmdline.maxdepth)
                  => log[i].visit = "POST"


----------------------------------------------------------------------------
\* The path of a record.

\* The root string as passed, then the names from the root down to node n,
\* joined by single slashes.
RECURSIVE PathOf(_)
PathOf(n) ==
    IF fs_parent[n] = 0 THEN fs.root
    ELSE LET dir == PathOf(fs_parent[n])
         IN  (IF dir[Len(dir)] = "/" THEN dir ELSE Append(dir, "/"))
             \o <<fs_name[n]>>

\* C36: at every callback the path of the record is the root string as
\* passed for depth 0, and for depth > 0 the root string, a '/' if it does
\* not end in one, and the names from the root down joined by single '/',
\* whatever pops, garbage collections, trims and directory-error reports
\* came before.
C36_PathIsRootAndNames ==
    \A i \in Invoked : log[i].path = PathOf(log[i].node)

\* The same for the callbacks that no directory-error report precedes.
C36_PathBeforeErrors ==
    \A i \in Invoked :
        (\A j \in 1..(i - 1) : log[j].typeflag # "ERROR" \/ log[j].depth = 0
                               \/ fs.kind[log[j].node] # "dir")
            => log[i].path = PathOf(log[i].node)


----------------------------------------------------------------------------
\* What bftw() leaves behind.

\* bftw() has returned from a walk that bftw_state_init() let start.
Walked == pc = "returned" /\ state.capacity >= 0 /\ state.slots >= 1

\* C37: when bftw() returns, normally, after a stop or after a failure,
\* the heap of the cache is empty, every entry has been freed, each with
\* ref_count 0, the queue is empty and the readdir stream is closed.
C37_NothingLeft ==
    Walked =>
        /\ Len(state.heap) = 0
        /\ \A e \in Entries : state.ent[e] = NoEntry
        /\ "free: refcount = 0" \notin state.asserts
        /\ "free: size = 0" \notin state.asserts
        /\ state.queue.size = 0
        /\ state.current = 0
        /\ state.dir = 0

\* A walk without BFTW_RECOVER that failed when stat() failed on r/a/d,
\* with r/a open and r/b on the queue, has returned.
C37_Witness ==
    /\ Walked
    /\ fs = ErrorTree
    /\ "RECOVER" \notin state.flags
    /\ bftw_ret = -1
    /\ state.error = EACCES
    /\ \E i \in Invoked : log[i].node = 3 /\ log[i].typeflag = "DIR"
    /\ \A i \in Invoked : log[i].node \notin {4, 6}

\* A walk in which a dircache_entry_open() was retried after EMFILE has
\* returned.
C37_WitnessRetried ==
    /\ Walked
    /\ emfile > 0
    /\ bftw_ret = 0
    /\ Len(log) = 6


----------------------------------------------------------------------------
\* The assertions of the cache.

CacheAsserts ==
    {"push: size < capacity", "push: fd >= 0", "pop: size > 0",
     "pop: fd >= 0", "open: fd < 0", "free: refcount = 0"}

\* C38: no assertion of the cache fails on any path, the EMFILE retries
\* included: dircache_push() is called with size < capacity and an open fd,
\* dircache_pop() with size > 0 and an open fd, dircache_entry_open() on an
\* entry whose fd is closed, dircache_entry_free() on an entry whose
\* ref_count is 0.
C38_AssertionsHold ==
    pc # "idle" => state.asserts \cap CacheAsserts = {}

\* The same in the walks in which no dircache_entry_open() was retried
\* after EMFILE.
C38_AssertionsHoldNoRetry ==
    (pc # "idle" /\ emfile = 0) => state.asserts = {}

\* Whatever the retries, only the first assertion of dircache_push() fails.
C38_OtherAssertionsHold ==
    pc # "idle" => state.asserts \subseteq {"push: size < capacity"}


----------------------------------------------------------------------------
\* Each directory is expanded once.

\* The stream that is open is that of the directory that was dequeued; no
\* file has had a second pre-order callback, so no directory was put on
\* the queue twice and no two entries stand for one file; with
\* BFTW_RECOVER no directory has had a second error callback; a walk that
\* has returned has left nothing on the queue.
ExpandedOnce ==
    /\ state.dir # 0 =>
          /\ state.current # 0
          /\ state.dir = Followed(state.ent[state.current].node)
    /\ \A n \in Nodes : Cardinality(Visits(n, "PRE")) <= 1
    /\ \A e, f \in Entries :
          (state.ent[e].live /\ state.ent[f].live /\ e # f)
              => state.ent[e].node # state.ent[f].node
    /\ "RECOVER" \in state.flags =>
          \A n \in Nodes : Cardinality(ErrorVisits(n)) <= 1
    /\ Walked => state.queue.size = 0 /\ state.current = 0

\* C39: on a finite tree without directory cycles, or with cycle detection,
\* every walk ends: each directory put on the queue is dequeued and
\* expanded exactly once, the handling of a directory error under
\* BFTW_RECOVER is not repeated for the same directory, and the loop ends
\* when the queue is empty.
C39_ExpandedOnce ==
    (pc # "idle" /\ (fs \notin {LinkTree, MountTree}
                     \/ "DETECT_CYCLES" \in state.flags))
        => ExpandedOnce

\* The same up to the first error report of a directory below the root.
C39_ExpandedOnceBeforeErrors ==
    (/\ pc # "idle"
     /\ fs \notin {LinkTree, MountTree} \/ "DETECT_CYCLES" \in state.flags
     /\ \A i \in Invoked : log[i].typeflag # "ERROR" \/ log[i].depth = 0
                           \/ fs.kind[log[i].node] # "dir")
        => ExpandedOnce

\* The directory r/b/c has been found a third time.
C39_ThirdTime ==
    pc # "idle" => Cardinality(Visits(4, "PRE")) <= 2


----------------------------------------------------------------------------
\* The descriptor budget.

\* What infer_fdlimit() starts from and what it sets aside.
LimitAsInt ==
    IF fs.rlimit.ok /\ fs.rlimit.kind # "INFINITY" THEN fs.rlimit.int
    ELSE 4096

Reserved ==
    (IF fs.devfd >= 0 THEN fs.devfd - 1 ELSE 3 + args.cmdline.nopen_files)
    + 1

\* C40: for every NOFILE limit and every number of open descriptors, the
\* budget eval_cmdline() derives and passes to bftw() is at least 2, the
\* least that bftw() accepts.
C40_BudgetAtLeastTwo == pc # "infer" => args.nopenfd >= 2

\* C40, amended: the budget is at least 1; it is at least 2 exactly when
\* the limit exceeds by 2 or more what is open and reserved, and then it is
\* the limit less that; with a budget of 1 every bftw() fails with EMFILE
\* before any callback and eval_cmdline() returns -1.
C40_BudgetAtLeastOne ==
    pc # "infer" =>
        /\ args.nopenfd >= 1
        /\ args.nopenfd >= 2 <=> LimitAsInt >= Reserved + 2
        /\ args.nopenfd >= 2 => args.nopenfd = LimitAsInt - Reserved
        /\ (args.nopenfd < 2 /\ pc = "returned") =>
              bftw_ret = -1 /\ state.errno = EMFILE /\ log = <<>>
        /\ args.nopenfd < 2 => pc \in {"cmdline", "returned", "exit"}
        /\ (args.nopenfd < 2 /\ pc = "exit") =>
              args.ret = -1 /\ args.cerr = NRoots /\ log = <<>>

\* A limit of 8 with 6 descriptors open: the budget is 1 and eval_cmdline()
\* has returned -1 after bftw() failed for each root.
C40_Witness ==
    /\ pc = "exit"
    /\ fs.rlimit.kind = "number" /\ fs.rlimit.int = 8 /\ fs.devfd = 7
    /\ args.nopenfd = 1
    /\ args.ret = -1
    /\ log = <<>>

\* A limit of 8 with 5 descriptors open: the budget is 2 and bftw() starts.
C40_WitnessTwo ==
    /\ pc = "start"
    /\ fs.rlimit.kind = "number" /\ fs.rlimit.int = 8 /\ fs.devfd = 6
    /\ args.nopenfd = 2
    /\ state.capacity = 1

=============================================================================
